---- MODULE Spec2Model ----
(***************************************************************************)
(* seismotail: the bounded deduplication ring (src/dedup.rs), the STA/LTA   *)
(* detector (src/eew.rs) and the live stream (cmd_live in src/main.rs).    *)
(*                                                                         *)
(* The ring is a VecDeque of (id, updated) entries, oldest at the front,   *)
(* with a fixed capacity and two statistics counters.  A caller constructs *)
(* it with new(capacity), then calls check_and_mark and clear in any       *)
(* order.  The model keeps the ring as one record, the caller's position   *)
(* in pc, and a log of the calls made since construction or the last       *)
(* clear (arguments and returned result), which is what the properties     *)
(* below speak about.                                                      *)
(*                                                                         *)
(* The detector is a pure function of a detector configuration and an      *)
(* accelerometer record, computed in f32.  Its specification SpecDetect    *)
(* draws both from bounded sets and runs detect() one loop index per step. *)
(*                                                                         *)
(* The live stream polls a feed for ever; each fetched event goes through  *)
(* the filter, then the ring, then to the output.  Its specification       *)
(* SpecLive draws the filter and the feeds from bounded sets and takes one *)
(* step per event.                                                         *)
(*                                                                         *)
(* The pure functions (the alert classifier, the magnitude estimator, the  *)
(* event filter, the parsers of the geographic filters) are applied once   *)
(* per behaviour of SpecCalls to arguments drawn from bounded sets.        *)
(***************************************************************************)
EXTENDS Integers, Sequences, FiniteSets, TLC

\* Largest capacity a caller asks for (0 is asked for too, and panics).
MaxCap == 2

\* Event ids are opaque strings compared for equality only.
IdPool == <<"event1", "event2", "event3", "event4", "event5", "event6">>

\* One id more than the largest capacity, so that a full ring can always be
\* offered an id it does not track.
Ids == {IdPool[i] : i \in 1..(MaxCap + 1)}

\* Update times (i64 milliseconds); only their order matters.
Times == {1000, 2000}

\* Calls of check_and_mark between two resets: enough to fill the largest
\* ring, overflow it by one and resubmit two ids.
MaxCalls == MaxCap + 3

\* Longest record (samples per axis) the detector is run on, besides the two
\* 200-sample records of the repository's tests.
MaxSamples == 5

\* Polls of the feed the live stream makes.
MaxPolls == 2

\* pub const DEFAULT_CAPACITY: usize = 10_000;
DEFAULT_CAPACITY == 10000

VARIABLES
    pc,         \* "start" before DedupeRing::new, "ready" once it returned,
                \* "panicked" when its assertion failed
    cap_arg,    \* the capacity the caller passes to DedupeRing::new
    ring,       \* the DedupeRing: [seen, capacity, total_seen, total_dupes]
    log,        \* calls of check_and_mark since construction or the last clear
    cleared,    \* TRUE once clear() has been called
    detector,   \* the StaLtaDetector detect() is called on
    record_arg, \* the AccelerometerRecord it is given
    dpc,        \* "idle": no call; "call": entered; "loop": in the for loop;
                \* "done": returned
    n_samples,  \* detect's n
    pga_vec,    \* detect's pga vector
    idx,        \* detect's loop index i
    is_triggered, \* detect's triggered flag
    detections, \* detect's result vector
    evals,      \* what each loop index so far did, in order
    returned,   \* what each finished call of detect returned and left behind
    lpc,        \* cmd_live: "idle": not run; "start": entered; "poll": about
                \* to fetch; "events": in the for loop over feed.features
    filter,     \* cmd_live's EventFilter
    dedup,      \* cmd_live's DedupeRing
    poll_count, \* cmd_live's poll_count
    features,   \* feed.features of the fetch being processed
    at,         \* position in features of the next event (1-based)
    output,     \* what has been written to stdout: events, each with
                \* whether the UPDATE prefix came before it
    handled,    \* what the loop did with each event so far, in order
    fetches,    \* how each fetch_feed so far ended, and the ring and the
                \* length of the output it found
    fn_call,    \* a call of a pure function: [fn, args]
    fn_ret,     \* <<>> before the call, <<the value returned>> after it
    spc,        \* poll_earthquakes: "idle": not spawned; "check": about to
                \* load feed_active; "paused": in the one-second sleep;
                \* "fetch": about to fetch; "events": in the for loop
    config,     \* the server's ServerConfig: [filter]
    feed_active, \* AppState's feed_active flag
    seen_ids,   \* poll_earthquakes' seen_ids
    srv_features, \* feed.features of the fetch poll_earthquakes processes
    srv_at,     \* position in srv_features of the next event (1-based)
    srv_fetches, \* each fetch_feed of the polling task so far: how it ended
                \* and what feed_active held when it was made
    broadcasts  \* each send on the broadcast channel so far: the event, the
                \* fetch it came from, what feed_active held when it was sent

ring_vars == <<pc, cap_arg, ring, log, cleared>>

det_vars ==
    <<detector, record_arg, dpc, n_samples, pga_vec, idx, is_triggered,
      detections, evals, returned>>

live_vars ==
    <<lpc, filter, dedup, poll_count, features, at, output, handled, fetches>>

fn_vars == <<fn_call, fn_ret>>

srv_vars ==
    <<spc, config, feed_active, seen_ids, srv_features, srv_at, srv_fetches,
      broadcasts>>

vars == <<ring_vars, det_vars, live_vars, fn_vars, srv_vars>>

----
\* enum DedupeResult
DedupeResult == {"New", "Updated", "Duplicate"}

\* struct SeenEntry { id, updated }
SeenEntry(id, updated) == [id |-> id, updated |-> updated]

\* No ring exists: before construction, and for ever after a failed one.
NoRing == [seen |-> <<>>, capacity |-> 0, total_seen |-> 0, total_dupes |-> 0]

\* A bug new could have: the assertion is missing.
new_never_panics(capacity) == FALSE

\* The assertion of DedupeRing::new: capacity > 0, or the constructor panics.
new_panics(capacity) == ~(capacity > 0)

\* DedupeRing::new, past its assertion.
new(capacity) ==
    [seen |-> <<>>, capacity |-> capacity, total_seen |-> 0, total_dupes |-> 0]

\* VecDeque::pop_front: removes the front element; nothing on an empty deque.
pop_front(s) == IF s = <<>> THEN s ELSE Tail(s)

\* A bug find_position could have: the scan misses the front entry.
find_position_skip_front(self, id) ==
    LET hits == {i \in 2..Len(self.seen) : self.seen[i].id = id}
    IN  IF hits = {} THEN 0
        ELSE CHOOSE i \in hits : \A j \in hits : i <= j

\* DedupeRing::find_position: the first position holding id (1-based), 0 for None.
find_position(self, id) ==
    LET hits == {i \in 1..Len(self.seen) : self.seen[i].id = id}
    IN  IF hits = {} THEN 0
        ELSE CHOOSE i \in hits : \A j \in hits : i <= j

\* A bug insert could have: the eviction test is > instead of >=.
insert_late_evict(self, id, updated) ==
    LET kept == IF Len(self.seen) > self.capacity
                THEN pop_front(self.seen) ELSE self.seen
    IN  [self EXCEPT !.seen = Append(kept, SeenEntry(id, updated))]

\* A bug insert could have: at capacity it drops the newest entry, not the oldest.
insert_evict_newest(self, id, updated) ==
    LET kept == IF Len(self.seen) >= self.capacity
                THEN SubSeq(self.seen, 1, Len(self.seen) - 1) ELSE self.seen
    IN  [self EXCEPT !.seen = Append(kept, SeenEntry(id, updated))]

\* DedupeRing::insert: evict the oldest entry if at capacity, then push_back.
insert(self, id, updated) ==
    LET kept == IF Len(self.seen) >= self.capacity
                THEN pop_front(self.seen) ELSE self.seen
    IN  [self EXCEPT !.seen = Append(kept, SeenEntry(id, updated))]

\* A bug check_and_mark could have: an equal time counts as an update (>=).
check_and_mark_ge(self, id, updated) ==
    LET counted == [self EXCEPT !.total_seen = @ + 1]
        pos == find_position(counted, id)
    IN  IF pos # 0
        THEN IF updated >= counted.seen[pos].updated
             THEN [self |-> [counted EXCEPT !.seen[pos].updated = updated],
                   result |-> "Updated"]
             ELSE [self |-> [counted EXCEPT !.total_dupes = @ + 1],
                   result |-> "Duplicate"]
        ELSE [self |-> insert(counted, id, updated), result |-> "New"]

\* A bug check_and_mark could have: an update moves the entry to the back of
\* the ring (it refreshes recency).
check_and_mark_refresh(self, id, updated) ==
    LET counted == [self EXCEPT !.total_seen = @ + 1]
        pos == find_position(counted, id)
        others == SelectSeq(counted.seen, LAMBDA e : e.id # id)
    IN  IF pos # 0
        THEN IF updated > counted.seen[pos].updated
             THEN [self |-> [counted EXCEPT
                                !.seen = Append(others, SeenEntry(id, updated))],
                   result |-> "Updated"]
             ELSE [self |-> [counted EXCEPT !.total_dupes = @ + 1],
                   result |-> "Duplicate"]
        ELSE [self |-> insert(counted, id, updated), result |-> "New"]

\* A bug check_and_mark could have: an update is counted as a duplicate too.
check_and_mark_count_updates(self, id, updated) ==
    LET counted == [self EXCEPT !.total_seen = @ + 1]
        pos == find_position(counted, id)
    IN  IF pos # 0
        THEN IF updated > counted.seen[pos].updated
             THEN [self |-> [counted EXCEPT !.seen[pos].updated = updated,
                                            !.total_dupes = @ + 1],
                   result |-> "Updated"]
             ELSE [self |-> [counted EXCEPT !.total_dupes = @ + 1],
                   result |-> "Duplicate"]
        ELSE [self |-> insert(counted, id, updated), result |-> "New"]

\* A bug check_and_mark could have: a duplicate overwrites the stored time with
\* the time it carries.
check_and_mark_dup_touch(self, id, updated) ==
    LET counted == [self EXCEPT !.total_seen = @ + 1]
        pos == find_position(counted, id)
    IN  IF pos # 0
        THEN IF updated > counted.seen[pos].updated
             THEN [self |-> [counted EXCEPT !.seen[pos].updated = updated],
                   result |-> "Updated"]
             ELSE [self |-> [counted EXCEPT !.seen[pos].updated = updated,
                                            !.total_dupes = @ + 1],
                   result |-> "Duplicate"]
        ELSE [self |-> insert(counted, id, updated), result |-> "New"]

\* A bug check_and_mark could have: the comparison is inverted, an older time
\* counts as the update.
check_and_mark_lt(self, id, updated) ==
    LET counted == [self EXCEPT !.total_seen = @ + 1]
        pos == find_position(counted, id)
    IN  IF pos # 0
        THEN IF updated < counted.seen[pos].updated
             THEN [self |-> [counted EXCEPT !.seen[pos].updated = updated],
                   result |-> "Updated"]
             ELSE [self |-> [counted EXCEPT !.total_dupes = @ + 1],
                   result |-> "Duplicate"]
        ELSE [self |-> insert(counted, id, updated), result |-> "New"]

\* DedupeRing::check_and_mark: the ring after the call and the returned result.
check_and_mark(self, id, updated) ==
    LET counted == [self EXCEPT !.total_seen = @ + 1]
        pos == find_position(counted, id)
    IN  IF pos # 0
        THEN IF updated > counted.seen[pos].updated
             THEN [self |-> [counted EXCEPT !.seen[pos].updated = updated],
                   result |-> "Updated"]
             ELSE [self |-> [counted EXCEPT !.total_dupes = @ + 1],
                   result |-> "Duplicate"]
        ELSE [self |-> insert(counted, id, updated), result |-> "New"]

\* DedupeRing::len
len(self) == Len(self.seen)

\* A bug dupe_rate could have: no guard for total_seen = 0.
dupe_rate_unguarded(self) == [num |-> self.total_dupes, den |-> self.total_seen]

\* DedupeRing::dupe_rate.  The f64 quotient is kept as the fraction num/den
\* (den = 0 is the NaN of 0.0/0.0); both casts to f64 are exact below 2^53.
dupe_rate(self) ==
    IF self.total_seen = 0
    THEN [num |-> 0, den |-> 1]
    ELSE [num |-> self.total_dupes, den |-> self.total_seen]

\* A bug clear could have: the duplicate counter is not reset.
clear_keeps_dupes(self) == [self EXCEPT !.seen = <<>>, !.total_seen = 0]

\* DedupeRing::clear
clear(self) == [self EXCEPT !.seen = <<>>, !.total_seen = 0, !.total_dupes = 0]

\* A bug should_emit could have: every result is emitted.
should_emit_always(result) == result \in DedupeResult

\* DedupeResult::should_emit
should_emit(result) ==
    CASE result \in {"New", "Updated"} -> TRUE
      [] result = "Duplicate" -> FALSE

\* A bug is_update could have: no result counts as an update.
is_update_never(result) == FALSE

\* DedupeResult::is_update
is_update(result) == result = "Updated"

----
(***************************************************************************)
(* f32 arithmetic (src/eew.rs computes in f32).  A value is a record       *)
(* [k, neg, m, e]: k = "fin" is (-1)^neg * m * 2^e with m = 0 or           *)
(* 2^23 <= m < 2^24 (a 24-bit significand), k = "nan" is NaN, k = "inf"    *)
(* an infinity.  Every operation rounds to nearest, ties to even, as       *)
(* IEEE 754 does.  The exponent is unbounded: overflow to infinity and     *)
(* subnormal results, both far from the magnitudes of ground acceleration, *)
(* are not modelled.                                                       *)
(***************************************************************************)
TwoTo23 == 2^23
TwoTo24 == 2^24

F(m, e) == [k |-> "fin", neg |-> FALSE, m |-> m, e |-> e]
FZero == [k |-> "fin", neg |-> FALSE, m |-> 0, e |-> 0]
FNaN == [k |-> "nan", neg |-> FALSE, m |-> 0, e |-> 0]
FInf(neg) == [k |-> "inf", neg |-> neg, m |-> 0, e |-> 0]
FNeg(a) == [a EXCEPT !.neg = ~@]

\* The number of bits of t, 0 < t < 2^30.
BitLen(t) == CHOOSE b \in 1..30 : 2^(b - 1) <= t /\ t < 2^b

\* (t + f) * 2^e rounded to 24 bits, where 0 <= f < 1 and f > 0 iff sticky.
\* A sticky t has at least 26 bits.
FRound(t, e, sticky) ==
    IF t = 0 THEN FZero
    ELSE LET b == BitLen(t)
         IN  IF b <= 24 THEN F(t * 2^(24 - b), e - (24 - b))
             ELSE LET s == b - 24
                      q == t \div 2^s
                      r == t % 2^s
                      half == 2^(s - 1)
                      up == \/ r > half
                            \/ r = half /\ (sticky \/ q % 2 = 1)
                      q1 == IF up THEN q + 1 ELSE q
                  IN  IF q1 = TwoTo24 THEN F(TwoTo23, e + s + 1)
                      ELSE F(q1, e + s)

\* usize as f32, exact below 2^24.
FFromNat(n) == FRound(n, 0, FALSE)

\* a + b for operands that are not negative (sums of PGA values).
FAdd(a, b) ==
    IF a.k = "nan" \/ b.k = "nan" THEN FNaN
    ELSE IF a.k = "inf" \/ b.k = "inf" THEN FInf(FALSE)
    ELSE IF a.m = 0 THEN b
    ELSE IF b.m = 0 THEN a
    ELSE LET hi == IF a.e >= b.e THEN a ELSE b
             lo == IF a.e >= b.e THEN b ELSE a
             d == hi.e - lo.e
         IN  IF d >= 27 THEN hi
             ELSE LET lo8 == lo.m * 8
                      t == hi.m * 8 + (lo8 \div 2^d)
                  IN  FRound(t, hi.e - 3, lo8 % 2^d # 0)

\* a * b.
FMul(a, b) ==
    IF a.k = "nan" \/ b.k = "nan" THEN FNaN
    ELSE IF a.k = "inf" \/ b.k = "inf"
         THEN IF (a.k = "fin" /\ a.m = 0) \/ (b.k = "fin" /\ b.m = 0)
              THEN FNaN ELSE FInf(a.neg # b.neg)
    ELSE IF a.m = 0 \/ b.m = 0 THEN [FZero EXCEPT !.neg = (a.neg # b.neg)]
    ELSE LET h1 == a.m \div 4096
             l1 == a.m % 4096
             h2 == b.m \div 4096
             l2 == b.m % 4096
             mid == h1 * l2 + l1 * h2
             low == (mid % 4096) * 4096 + l1 * l2
             \* a.m * b.m = top * 2^24 + rest
             top == h1 * h2 + (mid \div 4096) + (low \div TwoTo24)
             rest == low % TwoTo24
             r == FRound(top * 64 + (rest \div 2^18), a.e + b.e + 18,
                         rest % 2^18 # 0)
         IN  [r EXCEPT !.neg = (a.neg # b.neg)]

\* The bits of a quotient after its integer bit: left more bits of rem / mb.
RECURSIVE DivBits(_, _, _, _)
DivBits(q, rem, mb, left) ==
    IF left = 0 THEN [q |-> q, rem |-> rem]
    ELSE LET r2 == 2 * rem
         IN  IF r2 >= mb THEN DivBits(2 * q + 1, r2 - mb, mb, left - 1)
             ELSE DivBits(2 * q, r2, mb, left - 1)

\* a / b.
FDiv(a, b) ==
    IF a.k = "nan" \/ b.k = "nan" THEN FNaN
    ELSE IF a.k = "inf" THEN IF b.k = "inf" THEN FNaN ELSE FInf(a.neg # b.neg)
    ELSE IF b.k = "inf" THEN [FZero EXCEPT !.neg = (a.neg # b.neg)]
    ELSE IF b.m = 0 THEN IF a.m = 0 THEN FNaN ELSE FInf(a.neg # b.neg)
    ELSE IF a.m = 0 THEN [FZero EXCEPT !.neg = (a.neg # b.neg)]
    ELSE LET d == DivBits(a.m \div b.m, a.m % b.m, b.m, 26)
             r == FRound(d.q, a.e - b.e - 26, d.rem # 0)
         IN  [r EXCEPT !.neg = (a.neg # b.neg)]

\* Digit-by-digit square root: j counts the bit pairs of m still to bring
\* down (then pairs of zeros, down to -14, for the fraction bits).
RECURSIVE SqrtBits(_, _, _, _)
SqrtBits(root, rem, m, j) ==
    IF j < -14 THEN [root |-> root, rem |-> rem]
    ELSE LET pair == IF j >= 0 THEN (m \div 4^j) % 4 ELSE 0
             r4 == 4 * rem + pair
             trial == 4 * root + 1
         IN  IF r4 >= trial THEN SqrtBits(2 * root + 1, r4 - trial, m, j - 1)
             ELSE SqrtBits(2 * root, r4, m, j - 1)

\* f32::sqrt.
FSqrt(a) ==
    IF a.k = "nan" THEN FNaN
    ELSE IF a.k = "inf" THEN IF a.neg THEN FNaN ELSE a
    ELSE IF a.m = 0 THEN a
    ELSE IF a.neg THEN FNaN
    ELSE LET odd == a.e % 2 = 1
             m2 == IF odd THEN 2 * a.m ELSE a.m
             e2 == IF odd THEN a.e - 1 ELSE a.e
             s == SqrtBits(0, 0, m2, 12)
         IN  FRound(s.root, (e2 \div 2) - 14, s.rem # 0)

\* a < b on magnitudes of finite values.
MagLt(a, b) ==
    IF b.m = 0 THEN FALSE
    ELSE IF a.m = 0 THEN TRUE
    ELSE a.e < b.e \/ (a.e = b.e /\ a.m < b.m)

\* a < b; false when either is NaN.
FLt(a, b) ==
    IF a.k = "nan" \/ b.k = "nan" THEN FALSE
    ELSE IF a.k = "inf" THEN a.neg /\ ~(b.k = "inf" /\ b.neg)
    ELSE IF b.k = "inf" THEN ~b.neg
    ELSE IF a.m = 0 /\ b.m = 0 THEN FALSE
    ELSE IF a.neg /\ ~b.neg THEN TRUE
    ELSE IF ~a.neg /\ b.neg THEN FALSE
    ELSE IF a.neg THEN MagLt(b, a)
    ELSE MagLt(a, b)

FGt(a, b) == FLt(b, a)
FGe(a, b) == a.k # "nan" /\ b.k # "nan" /\ ~FLt(a, b)
FLe(a, b) == FGe(b, a)

\* f32::max: the larger operand, the other one when one is NaN.
FMax(a, b) ==
    IF a.k = "nan" THEN b
    ELSE IF b.k = "nan" THEN a
    ELSE IF FLt(a, b) THEN b ELSE a

----
(***************************************************************************)
(* The STA/LTA detector (src/eew.rs).  detect() is a loop over the sample  *)
(* indices lta_samples..n; the model takes one step per index and records  *)
(* what each index did in evals.                                           *)
(***************************************************************************)

\* The f32 nearest to the decimal n/d (what a literal such as 0.001 denotes).
FDec(n, d) == FDiv(FFromNat(n), FFromNat(d))

\* f32 as usize: truncation, 0 for NaN and negative values.
FToUsize(a) ==
    IF a.k # "fin" \/ a.neg \/ a.m = 0 THEN 0
    ELSE IF a.e >= 0 THEN a.m * 2^a.e
    ELSE IF -a.e >= 24 THEN 0
    ELSE a.m \div 2^(-a.e)

\* m / 2^s in lowest terms.
RECURSIVE Reduce(_, _)
Reduce(m, s) ==
    IF s > 0 /\ m % 2 = 0 /\ m # 0 THEN Reduce(m \div 2, s - 1)
    ELSE [num |-> m, den |-> 2^s]

\* f32 as f64, exact: the positive value as a fraction of integers.
FToRat(a) == IF a.e >= 0 THEN [num |-> a.m * 2^a.e, den |-> 1] ELSE Reduce(a.m, -a.e)

\* enum AlertLevel
AlertLevel == {"None", "Weak", "Light", "Moderate", "Strong", "Severe"}

\* A bug from_pga could have: the bands are exclusive at their lower end.
from_pga_exclusive(pga) ==
    IF FGt(pga, FFromNat(150)) THEN "Severe"
    ELSE IF FGt(pga, FFromNat(50)) THEN "Strong"
    ELSE IF FGt(pga, FFromNat(10)) THEN "Moderate"
    ELSE IF FGt(pga, FFromNat(3)) THEN "Light"
    ELSE IF FGt(pga, FFromNat(1)) THEN "Weak"
    ELSE "None"

\* AlertLevel::from_pga
from_pga(pga) ==
    IF FGe(pga, FFromNat(150)) THEN "Severe"
    ELSE IF FGe(pga, FFromNat(50)) THEN "Strong"
    ELSE IF FGe(pga, FFromNat(10)) THEN "Moderate"
    ELSE IF FGe(pga, FFromNat(3)) THEN "Light"
    ELSE IF FGe(pga, FFromNat(1)) THEN "Weak"
    ELSE "None"

\* The least f32 p with log10(p) >= t/10, for t = -10..70 (entry t + 11).
Pow10Tenths ==
    << 
       F(13421773, -27), F(8448506, -26), F(10636039, -26), F(13389979, -26),
       F(8428493, -25), F(10610844, -25), F(13358260, -25), F(8408527, -24),
       F(10585708, -24), F(13326617, -24), F(8388608, -23), F(10560632, -23),
       F(13295048, -23), F(16737474, -23), F(10535616, -22), F(13263554, -22),
       F(16697825, -22), F(10510659, -21), F(13232135, -21), F(16658271, -21),
       F(10485760, -20), F(13200790, -20), F(16618810, -20), F(10460921, -19),
       F(13169520, -19), F(16579443, -19), F(10436141, -18), F(13138323, -18),
       F(16540169, -18), F(10411420, -17), F(13107200, -17), F(16500988, -17),
       F(10386757, -16), F(13076152, -16), F(16461899, -16), F(10362152, -15),
       F(13045176, -15), F(16422904, -15), F(10337606, -14), F(13014274, -14),
       F(16384000, -14), F(10313117, -13), F(12983446, -13), F(16345189, -13),
       F(10288687, -12), F(12952690, -12), F(16306470, -12), F(10264315, -11),
       F(12922007, -11), F(16267843, -11), F(10240000, -10), F(12891397, -10),
       F(16229307, -10), F(10215744, -9), F(12860859, -9), F(16190862, -9),
       F(10191544, -8), F(12830394, -8), F(16152509, -8), F(10167402, -7),
       F(12800000, -7), F(16114246, -7), F(10143317, -6), F(12769679, -6),
       F(16076074, -6), F(10119289, -5), F(12739430, -5), F(16037992, -5),
       F(10095318, -4), F(12709252, -4), F(16000000, -4), F(10071404, -3),
       F(12679146, -3), F(15962099, -3), F(10047546, -2), F(12649111, -2),
       F(15924287, -2), F(10023745, -1), F(12619147, -1), F(15886565, -1),
       F(10000000, 0) >>

\* floor(10 * log10(pga)) for pga >= 0.1, saturated at 70.
Log10Tenths(pga) ==
    LET hits == {t \in 1..Len(Pow10Tenths) : FGe(pga, Pow10Tenths[t])}
    IN  (CHOOSE t \in hits : \A u \in hits : u <= t) - 11

\* A bug the estimator could have: 0.1 itself is too small to estimate.
estimate_magnitude_from_pga_le(pga) ==
    IF FLe(pga, FDec(1, 10)) THEN <<>>
    ELSE IF pga.k = "nan" THEN <<"NaN">>
    ELSE LET v == Log10Tenths(pga) + 25
         IN  << IF v < 10 THEN 10 ELSE IF v > 90 THEN 90 ELSE v >>

\* estimate_magnitude_from_pga: None (<<>>) below 0.1, else
\* Some(clamp(log10(pga) + 2.5, 1.0, 9.0)).  The magnitude is kept in tenths,
\* truncated (f32::log10 is not reproduced bit for bit); a NaN pga is not
\* below 0.1 and comes out of log10 and clamp as NaN.
estimate_magnitude_from_pga(pga) ==
    IF FLt(pga, FDec(1, 10)) THEN <<>>
    ELSE IF pga.k = "nan" THEN <<"NaN">>
    ELSE LET v == Log10Tenths(pga) + 25
         IN  << IF v < 10 THEN 10 ELSE IF v > 90 THEN 90 ELSE v >>

\* impl Default for StaLtaDetector
StaLtaDetector_default ==
    [sta_samples |-> 10, lta_samples |-> 100,
     trigger_threshold |-> FFromNat(3), detrigger_threshold |-> FDec(15, 10)]

\* StaLtaDetector::new
StaLtaDetector_new(sta_seconds, lta_seconds, sample_rate, threshold) ==
    [sta_samples |-> FToUsize(FMul(sta_seconds, sample_rate)),
     lta_samples |-> FToUsize(FMul(lta_seconds, sample_rate)),
     trigger_threshold |-> threshold,
     detrigger_threshold |-> FDiv(threshold, FFromNat(2))]

\* StaLtaDetector::calculate_pga
calculate_pga(x, y, z) ==
    FSqrt(FAdd(FAdd(FMul(x, x), FMul(y, y)), FMul(z, z)))

\* A bug the windows could have: the plain difference, which underflows when
\* the window is longer than the index.
saturating_sub_plain(a, b) == a - b

\* usize::saturating_sub
saturating_sub(a, b) == IF b > a THEN 0 ELSE a - b

\* usize::min
usize_min(a, b) == IF a < b THEN a ELSE b

\* pga[i.saturating_sub(w)..i] (the model's sequences are 1-based).
window(pga, i, w) == SubSeq(pga, saturating_sub(i, w) + 1, i)

\* v[lower..upper] panics: the bounds are out of order or beyond the vector
\* (a lower bound below 0 is a usize subtraction that overflowed).
slice_panics(size, lower, upper) ==
    lower < 0 \/ lower > upper \/ upper > size

\* v[i] panics: the index is not below the length.
index_panics(size, i) == i < 0 \/ i >= size

\* Computing the PGA vector panics: record.x[i], record.y[i] or record.z[i]
\* is out of bounds for some i in 0..n.
pga_vector_panics(record, n) ==
    \E i \in 0..(n - 1) :
        \/ index_panics(Len(record.x), i)
        \/ index_panics(Len(record.y), i)
        \/ index_panics(Len(record.z), i)

\* The iteration at index i panics: the STA slice (which is also the peak
\* slice) or the LTA slice is out of bounds.
windows_panic(self, pga, i) ==
    \/ slice_panics(Len(pga), saturating_sub(i, self.sta_samples), i)
    \/ slice_panics(Len(pga), saturating_sub(i, self.lta_samples), i)

\* iter().sum::<f32>(): the terms added left to right (a sum that has
\* become NaN stays NaN whatever is added).
RECURSIVE SumFrom(_, _, _)
SumFrom(s, j, acc) ==
    IF j > Len(s) \/ acc.k = "nan"
    THEN acc
    ELSE SumFrom(s, j + 1, FAdd(acc, s[j]))

f32_sum(s) == SumFrom(s, 1, FZero)

\* iter().cloned().fold(0.0f32, f32::max) (a maximum that has reached
\* +infinity stays there).
RECURSIVE MaxFrom(_, _, _)
MaxFrom(s, j, acc) ==
    IF j > Len(s) \/ acc = FInf(FALSE)
    THEN acc
    ELSE MaxFrom(s, j + 1, FMax(acc, s[j]))

fold_max(s) == MaxFrom(s, 1, FZero)

\* let n = record.x.len().min(record.y.len()).min(record.z.len());
sample_count(record) ==
    usize_min(usize_min(Len(record.x), Len(record.y)), Len(record.z))

\* if n < self.lta_samples { return vec![]; }
too_short(self, n) == n < self.lta_samples

\* The PGA of each sample, indices 0..n.
pga_vector(record, n) ==
    [j \in 1..n |-> calculate_pga(record.x[j], record.y[j], record.z[j])]

\* A bug detect could have: the trigger state of the previous call is kept.
triggered_at_entry_kept(previous) == previous

\* let mut triggered = false;
triggered_at_entry(previous) == FALSE

\* A bug the loop could have: it starts at the short window's length.
first_index_sta(self) == self.sta_samples

\* for i in self.lta_samples..n: the first index.
first_index(self) == self.lta_samples

\* A bug the short-term average could have: the sum is not divided.
sta_of_sum(self, pga, i) == f32_sum(window(pga, i, self.sta_samples))

\* STA at index i.
sta_of(self, pga, i) ==
    FDiv(f32_sum(window(pga, i, self.sta_samples)), FFromNat(self.sta_samples))

\* LTA at index i.
lta_of(self, pga, i) ==
    FDiv(f32_sum(window(pga, i, self.lta_samples)), FFromNat(self.lta_samples))

\* A bug the guard could have: it is missing.
lta_is_silent_never(lta) == FALSE

\* if lta < 0.001 { continue; }
lta_is_silent(lta) == FLt(lta, FDec(1, 1000))

\* A bug the trigger could have: level-triggered, it ignores the state.
is_onset_level(self, triggered, ratio) == FGt(ratio, self.trigger_threshold)

\* !triggered && ratio > self.trigger_threshold
is_onset(self, triggered, ratio) ==
    ~triggered /\ FGt(ratio, self.trigger_threshold)

\* A bug the detrigger could have: no hysteresis, it uses the trigger threshold.
is_release_no_hysteresis(self, triggered, ratio) ==
    triggered /\ FLt(ratio, self.trigger_threshold)

\* triggered && ratio < self.detrigger_threshold
is_release(self, triggered, ratio) ==
    triggered /\ FLt(ratio, self.detrigger_threshold)

\* A bug the peak could have: the PGA of sample i itself.
peak_pga_at_index(self, pga, i) == pga[i + 1]

\* A bug the peak could have: the first sample of the window, not its maximum.
peak_pga_first(self, pga, i) ==
    LET w == window(pga, i, self.sta_samples)
    IN  IF w = <<>> THEN FZero ELSE w[1]

\* let peak_pga = pga[i.saturating_sub(self.sta_samples)..i]. ... fold(0.0, max)
peak_pga(self, pga, i) == fold_max(window(pga, i, self.sta_samples))

\* A bug the timestamp could have: the sample offset is left out.
timestamp_at_start(record, i) ==
    LET sr == FToRat(record.sr)
    IN  [num |-> record.timestamp * sr.num, den |-> sr.num]

\* record.timestamp + (i as f64 / record.sr as f64): kept exact, as the
\* fraction num/den (the f64 roundings, of relative size 2^-53, are left out).
timestamp_at(record, i) ==
    LET sr == FToRat(record.sr)
    IN  [num |-> record.timestamp * sr.num + i * sr.den, den |-> sr.num]

\* A bug the detection could have: the alert level taken from the ratio.
Detection_level_of_ratio(record, i, ratio, peak) ==
    [device_id |-> record.device_id,
     timestamp |-> timestamp_at(record, i),
     pga |-> peak,
     sta_lta_ratio |-> ratio,
     estimated_magnitude |-> estimate_magnitude_from_pga(peak),
     alert_level |-> from_pga(ratio)]

\* detections.push(Detection { ... })
Detection(record, i, ratio, peak) ==
    [device_id |-> record.device_id,
     timestamp |-> timestamp_at(record, i),
     pga |-> peak,
     sta_lta_ratio |-> ratio,
     estimated_magnitude |-> estimate_magnitude_from_pga(peak),
     alert_level |-> from_pga(peak)]

\* The body of the loop at index i: what it computed, the state it leaves and
\* the detection it pushed, if any.  ratio is <<>> when none was computed.
detect_index(self, record, pga, i, triggered) ==
    LET sta == sta_of(self, pga, i)
        lta == lta_of(self, pga, i)
    IN  IF lta_is_silent(lta)
        THEN [i |-> i, sta |-> sta, lta |-> lta, skipped |-> TRUE,
              ratio |-> <<>>, before |-> triggered, after |-> triggered,
              pushed |-> <<>>]
        ELSE LET ratio == FDiv(sta, lta)
             IN  IF is_onset(self, triggered, ratio)
                 THEN [i |-> i, sta |-> sta, lta |-> lta, skipped |-> FALSE,
                       ratio |-> <<ratio>>, before |-> triggered, after |-> TRUE,
                       pushed |-> <<Detection(record, i, ratio,
                                              peak_pga(self, pga, i))>>]
                 ELSE IF is_release(self, triggered, ratio)
                 THEN [i |-> i, sta |-> sta, lta |-> lta, skipped |-> FALSE,
                       ratio |-> <<ratio>>, before |-> triggered, after |-> FALSE,
                       pushed |-> <<>>]
                 ELSE [i |-> i, sta |-> sta, lta |-> lta, skipped |-> FALSE,
                       ratio |-> <<ratio>>, before |-> triggered,
                       after |-> triggered, pushed |-> <<>>]

----
(***************************************************************************)
(* The event filter (src/filters.rs) and the live stream's loop body       *)
(* (src/main.rs).  Magnitudes are in tenths, depths in kilometres,         *)
(* latitudes and longitudes in whole degrees, distances in metres; an      *)
(* Option is <<>> for None and <<v>> for Some(v).                          *)
(***************************************************************************)

\* struct Feature, with the fields the stream reads.
Feature(id, updated, mag, coordinates, alert) ==
    [id |-> id,
     geometry |-> [coordinates |-> coordinates],
     properties |-> [mag |-> mag, updated |-> updated, alert |-> alert]]

\* Feature::longitude
longitude(event) ==
    LET c == event.geometry.coordinates
    IN  IF Len(c) >= 1 THEN c[1] ELSE 0

\* Feature::latitude
latitude(event) ==
    LET c == event.geometry.coordinates
    IN  IF Len(c) >= 2 THEN c[2] ELSE 0

\* Feature::depth_km
depth_km(event) ==
    LET c == event.geometry.coordinates
    IN  IF Len(c) >= 3 THEN c[3] ELSE 0

\* What BBox::contains could do instead: a box with min_lon > max_lon wraps
\* around the antimeridian.
BBox_contains_wrapping(self, lat, lon) ==
    /\ lat >= self.min_lat /\ lat <= self.max_lat
    /\ IF self.min_lon <= self.max_lon
       THEN lon >= self.min_lon /\ lon <= self.max_lon
       ELSE lon >= self.min_lon \/ lon <= self.max_lon

\* A bug BBox::contains could have: the edges of the box are excluded.
BBox_contains_open(self, lat, lon) ==
    /\ lat > self.min_lat /\ lat < self.max_lat
    /\ lon > self.min_lon /\ lon < self.max_lon

\* BBox::contains
BBox_contains(self, lat, lon) ==
    /\ lat >= self.min_lat /\ lat <= self.max_lat
    /\ lon >= self.min_lon /\ lon <= self.max_lon

\* haversine_distance between the places of the model, in metres (the f64
\* formula evaluated and truncated to the metre).
haversine_distance(lat1, lon1, lat2, lon2) ==
    LET ends == {<<lat1, lon1>>, <<lat2, lon2>>}
    IN  CASE lat1 = lat2 /\ lon1 = lon2 -> 0
          [] ends = {<<35, 139>>, <<36, 140>>} -> 143382
          [] ends = {<<35, 139>>, <<0, 0>>} -> 14253677
          [] ends = {<<36, 140>>, <<0, 0>>} -> 14266016

\* RadiusFilter::contains
RadiusFilter_contains(self, lat, lon) ==
    haversine_distance(self.center_lat, self.center_lon, lat, lon)
        <= self.radius_km * 1000

\* A bug check_magnitude could have: an event without magnitude passes.
check_magnitude_none_passes(self, event) ==
    IF self.min_magnitude = <<>> THEN TRUE
    ELSE \/ event.properties.mag = <<>>
         \/ event.properties.mag[1] >= self.min_magnitude[1]

\* EventFilter::check_magnitude
check_magnitude(self, event) ==
    IF self.min_magnitude = <<>> THEN TRUE
    ELSE /\ event.properties.mag # <<>>
         /\ event.properties.mag[1] >= self.min_magnitude[1]

\* EventFilter::check_depth
check_depth(self, event) ==
    IF self.max_depth = <<>> THEN TRUE
    ELSE depth_km(event) <= self.max_depth[1]

\* EventFilter::check_bbox
check_bbox(self, event) ==
    IF self.bbox = <<>> THEN TRUE
    ELSE BBox_contains(self.bbox[1], latitude(event), longitude(event))

\* EventFilter::check_radius
check_radius(self, event) ==
    IF self.radius = <<>> THEN TRUE
    ELSE RadiusFilter_contains(self.radius[1], latitude(event), longitude(event))

\* EventFilter::check_significant
check_significant(self, event) ==
    IF ~self.significant_only THEN TRUE
    ELSE event.properties.alert # <<>>

\* A bug matches could have: the depth check is left out.
matches_without_depth(self, event) ==
    /\ check_magnitude(self, event)
    /\ check_bbox(self, event)
    /\ check_radius(self, event)
    /\ check_significant(self, event)

\* EventFilter::matches
matches(self, event) ==
    /\ check_magnitude(self, event)
    /\ check_depth(self, event)
    /\ check_bbox(self, event)
    /\ check_radius(self, event)
    /\ check_significant(self, event)

\* DedupeRing::with_default_capacity
with_default_capacity == new(DEFAULT_CAPACITY)

\* A bug the loop could have: the ring is asked before the filter.
live_event_dedup_first(self, ring_in, event) ==
    LET out == check_and_mark(ring_in, event.id, event.properties.updated)
    IN  IF ~matches(self, event)
        THEN [dedup |-> out.self, called |-> TRUE, result |-> <<out.result>>,
              written |-> <<>>]
        ELSE IF ~should_emit(out.result)
        THEN [dedup |-> out.self, called |-> TRUE, result |-> <<out.result>>,
              written |-> <<>>]
        ELSE [dedup |-> out.self, called |-> TRUE, result |-> <<out.result>>,
              written |-> <<[update |-> is_update(out.result), event |-> event]>>]

\* The body of `for event in &feed.features`: the ring it leaves, whether
\* check_and_mark was called and what it returned, and what was written.
live_event(self, ring_in, event) ==
    IF ~matches(self, event)
    THEN [dedup |-> ring_in, called |-> FALSE, result |-> <<>>, written |-> <<>>]
    ELSE LET out == check_and_mark(ring_in, event.id, event.properties.updated)
         IN  IF ~should_emit(out.result)
             THEN [dedup |-> out.self, called |-> TRUE,
                   result |-> <<out.result>>, written |-> <<>>]
             ELSE [dedup |-> out.self, called |-> TRUE,
                   result |-> <<out.result>>,
                   written |-> <<[update |-> is_update(out.result),
                                  event |-> event]>>]

----
(***************************************************************************)
(* The parsers of the geographic filters (FromStr for BBox and for         *)
(* RadiusFilter in src/filters.rs).  A string is the sequence of its       *)
(* characters.  An f64 is [k, num, den]: k = "fin" is num/den with den a   *)
(* power of ten (decimal strings of a few digits convert to f64 in order,  *)
(* so comparing the fractions compares the f64s), k = "nan" is NaN,        *)
(* k = "inf" and k = "-inf" the infinities.                                *)
(***************************************************************************)

D(num, den) == [k |-> "fin", num |-> num, den |-> den]
DNaN == [k |-> "nan", num |-> 0, den |-> 1]
DInf(neg) == [k |-> IF neg THEN "-inf" ELSE "inf", num |-> 0, den |-> 1]

\* a < b on f64; false when either is NaN.
DLt(a, b) ==
    IF a.k = "nan" \/ b.k = "nan" THEN FALSE
    ELSE IF a.k = "-inf" THEN b.k # "-inf"
    ELSE IF a.k = "inf" THEN FALSE
    ELSE IF b.k = "-inf" THEN FALSE
    ELSE IF b.k = "inf" THEN TRUE
    ELSE a.num * b.den < b.num * a.den

DGt(a, b) == DLt(b, a)

\* a <= b on f64; false when either is NaN.
DLe(a, b) ==
    IF a.k = "nan" \/ b.k = "nan" THEN FALSE
    ELSE IF a.k = "-inf" THEN TRUE
    ELSE IF a.k = "inf" THEN b.k = "inf"
    ELSE IF b.k = "-inf" THEN FALSE
    ELSE IF b.k = "inf" THEN TRUE
    ELSE a.num * b.den <= b.num * a.den

\* str::split(','): the fields between the commas, at least one.
RECURSIVE split(_, _)
split(s, field) ==
    IF s = <<>> THEN <<field>>
    ELSE IF Head(s) = "," THEN <<field>> \o split(Tail(s), <<>>)
    ELSE split(Tail(s), Append(field, Head(s)))

\* str::trim: leading and trailing white space removed.
RECURSIVE trim(_)
trim(s) ==
    IF s = <<>> THEN s
    ELSE IF Head(s) = " " THEN trim(Tail(s))
    ELSE IF s[Len(s)] = " " THEN trim(SubSeq(s, 1, Len(s) - 1))
    ELSE s

Digits == <<"0", "1", "2", "3", "4", "5", "6", "7", "8", "9">>

IsDigit(c) == \E v \in 1..Len(Digits) : Digits[v] = c

DigitValue(c) == (CHOOSE v \in 1..Len(Digits) : Digits[v] = c) - 1

\* The number a sequence of digits writes (0 for none).
RECURSIVE digits_value(_, _)
digits_value(s, acc) ==
    IF s = <<>> THEN acc
    ELSE digits_value(Tail(s), 10 * acc + DigitValue(Head(s)))

\* char::to_ascii_lowercase, on the letters of "inf" and "nan".
lower(c) ==
    CASE c = "N" -> "n" [] c = "A" -> "a" [] c = "I" -> "i" [] c = "F" -> "f"
      [] OTHER -> c

\* str::parse::<f64>: [ok, val].  An optional sign, then "inf", "infinity"
\* or "nan" in any case, or digits with at most one point and at least one
\* digit (no string of the model carries an exponent).
parse_f64(s) ==
    LET signed == s # <<>> /\ s[1] \in {"+", "-"}
        neg == signed /\ s[1] = "-"
        body == IF signed THEN Tail(s) ELSE s
        low == [j \in 1..Len(body) |-> lower(body[j])]
        dots == {j \in 1..Len(body) : body[j] = "."}
        dot == IF dots = {} THEN Len(body) + 1 ELSE CHOOSE j \in dots : TRUE
        int == SubSeq(body, 1, dot - 1)
        frac == SubSeq(body, dot + 1, Len(body))
        value == digits_value(int \o frac, 0)
    IN  IF low = <<"n", "a", "n">> THEN [ok |-> TRUE, val |-> DNaN]
        ELSE IF low = <<"i", "n", "f">>
                \/ low = <<"i", "n", "f", "i", "n", "i", "t", "y">>
        THEN [ok |-> TRUE, val |-> DInf(neg)]
        ELSE IF /\ Cardinality(dots) <= 1
                /\ Len(int) + Len(frac) >= 1
                /\ \A j \in 1..Len(int) : IsDigit(int[j])
                /\ \A j \in 1..Len(frac) : IsDigit(frac[j])
        THEN [ok |-> TRUE,
              val |-> D(IF neg THEN -value ELSE value, 10^Len(frac))]
        ELSE [ok |-> FALSE, val |-> DNaN]

\* parts.iter().map(|p| p.trim().parse::<f64>()).collect::<Result<Vec<_>, _>>()
parse_all(parts) == [j \in 1..Len(parts) |-> parse_f64(trim(parts[j]))]

\* impl FromStr for BBox: [ok, val] or [ok, err].
BBox_from_str(s) ==
    LET parts == split(s, <<>>)
        vals == parse_all(parts)
    IN  IF Len(parts) # 4 THEN [ok |-> FALSE, err |-> "bbox requires 4 values"]
        ELSE IF \E j \in 1..4 : ~vals[j].ok
        THEN [ok |-> FALSE, err |-> "invalid number in bbox"]
        ELSE LET bbox == [min_lat |-> vals[1].val, min_lon |-> vals[2].val,
                          max_lat |-> vals[3].val, max_lon |-> vals[4].val]
             IN  IF DLt(bbox.min_lat, D(-90, 1)) \/ DGt(bbox.min_lat, D(90, 1))
                 THEN [ok |-> FALSE, err |-> "min_lat out of range"]
                 ELSE IF DLt(bbox.max_lat, D(-90, 1)) \/ DGt(bbox.max_lat, D(90, 1))
                 THEN [ok |-> FALSE, err |-> "max_lat out of range"]
                 ELSE IF DLt(bbox.min_lon, D(-180, 1)) \/ DGt(bbox.min_lon, D(180, 1))
                 THEN [ok |-> FALSE, err |-> "min_lon out of range"]
                 ELSE IF DLt(bbox.max_lon, D(-180, 1)) \/ DGt(bbox.max_lon, D(180, 1))
                 THEN [ok |-> FALSE, err |-> "max_lon out of range"]
                 ELSE IF DGt(bbox.min_lat, bbox.max_lat)
                 THEN [ok |-> FALSE, err |-> "min_lat must be <= max_lat"]
                 ELSE [ok |-> TRUE, val |-> bbox]

\* impl FromStr for RadiusFilter: [ok, val] or [ok, err].
RadiusFilter_from_str(s) ==
    LET parts == split(s, <<>>)
        vals == parse_all(parts)
    IN  IF Len(parts) # 3 THEN [ok |-> FALSE, err |-> "radius requires 3 values"]
        ELSE IF \E j \in 1..3 : ~vals[j].ok
        THEN [ok |-> FALSE, err |-> "invalid number in radius"]
        ELSE LET flt == [center_lat |-> vals[1].val, center_lon |-> vals[2].val,
                         radius_km |-> vals[3].val]
             IN  IF DLt(flt.center_lat, D(-90, 1)) \/ DGt(flt.center_lat, D(90, 1))
                 THEN [ok |-> FALSE, err |-> "latitude out of range"]
                 ELSE IF \/ DLt(flt.center_lon, D(-180, 1))
                         \/ DGt(flt.center_lon, D(180, 1))
                 THEN [ok |-> FALSE, err |-> "longitude out of range"]
                 ELSE IF DLe(flt.radius_km, D(0, 1))
                 THEN [ok |-> FALSE, err |-> "radius must be positive"]
                 ELSE [ok |-> TRUE, val |-> flt]

----
\* No detector call is in progress.
DetIdle ==
    /\ detector = StaLtaDetector_default
    /\ record_arg = [device_id |-> "", timestamp |-> 0, x |-> <<>>, y |-> <<>>,
                     z |-> <<>>, sr |-> FDec(3125, 100)]
    /\ dpc = "idle"
    /\ n_samples = 0
    /\ pga_vec = <<>>
    /\ idx = 0
    /\ is_triggered = FALSE
    /\ detections = <<>>
    /\ evals = <<>>
    /\ returned = <<>>

\* The EventFilter with no criterion.
EventFilter_default ==
    [min_magnitude |-> <<>>, max_depth |-> <<>>, bbox |-> <<>>, radius |-> <<>>,
     significant_only |-> FALSE]

\* The live stream is not running.
LiveIdle ==
    /\ lpc = "idle"
    /\ filter = EventFilter_default
    /\ dedup = NoRing
    /\ poll_count = 0
    /\ features = <<>>
    /\ at = 0
    /\ output = <<>>
    /\ handled = <<>>
    /\ fetches = <<>>

\* No pure function is being called.
FnIdle ==
    /\ fn_call = [fn |-> "none", args |-> <<>>]
    /\ fn_ret = <<>>

\* The web server is not running.
SrvIdle ==
    /\ spc = "idle"
    /\ config = [filter |-> EventFilter_default]
    /\ feed_active = FALSE
    /\ seen_ids = {}
    /\ srv_features = <<>>
    /\ srv_at = 0
    /\ srv_fetches = <<>>
    /\ broadcasts = <<>>

Init ==
    /\ DetIdle
    /\ LiveIdle
    /\ FnIdle
    /\ SrvIdle
    /\ pc = "start"
    /\ cap_arg \in 0..MaxCap
    /\ ring = NoRing
    /\ log = <<>>
    /\ cleared = FALSE

\* let mut ring = DedupeRing::new(cap_arg);
New ==
    /\ pc = "start"
    /\ IF new_panics(cap_arg)
       THEN pc' = "panicked" /\ ring' = ring
       ELSE pc' = "ready" /\ ring' = new(cap_arg)
    /\ UNCHANGED <<cap_arg, log, cleared>>
    /\ UNCHANGED <<det_vars, live_vars, fn_vars, srv_vars>>

\* let r = ring.check_and_mark(id, updated); r.should_emit(); r.is_update();
CheckAndMark(id, updated) ==
    /\ pc = "ready"
    /\ Len(log) < MaxCalls
    /\ LET out == check_and_mark(ring, id, updated)
       IN  /\ ring' = out.self
           /\ log' = Append(log, [id |-> id, updated |-> updated,
                                  result |-> out.result,
                                  emit |-> should_emit(out.result),
                                  update |-> is_update(out.result)])
    /\ UNCHANGED <<pc, cap_arg, cleared>>
    /\ UNCHANGED <<det_vars, live_vars, fn_vars, srv_vars>>

\* ring.clear();
Clear ==
    /\ pc = "ready"
    /\ ring' = clear(ring)
    /\ log' = <<>>
    /\ cleared' = TRUE
    /\ UNCHANGED <<pc, cap_arg>>
    /\ UNCHANGED <<det_vars, live_vars, fn_vars, srv_vars>>

Next ==
    \/ New
    \/ \E id \in Ids, updated \in Times : CheckAndMark(id, updated)
    \/ Clear

Spec == Init /\ [][Next]_vars

----
(***************************************************************************)
(* The detector's specification: one call of detect() per behaviour.       *)
(***************************************************************************)

\* The ring is not constructed (the detector's specification).
RingIdle ==
    /\ pc = "start"
    /\ cap_arg = 0
    /\ ring = NoRing
    /\ log = <<>>
    /\ cleared = FALSE

\* One sample as <<x, y, z>>: at rest, one negative component, one on z.
Samples ==
    { <<FZero, FZero, FZero>>,
      <<FNeg(FDec(9, 10)), FZero, FZero>>,
      <<FZero, FZero, FDec(17, 10)>> }

\* Every waveform of at most MaxSamples samples.
Waveforms == UNION {[1..k -> Samples] : k \in 0..MaxSamples}

\* How a record wraps a waveform: device, sample rate, and how many samples
\* each axis carries beyond the common length.
EqualAxes ==
    [device_id |-> "mx-001", sr |-> FDec(3125, 100), extra |-> <<0, 0, 0>>]

UnequalAxes ==
    [device_id |-> "cl-002", sr |-> FFromNat(125), extra |-> <<1, 0, 2>>]

\* k copies of v.
Repeat(v, k) == [j \in 1..k |-> v]

\* The record of a waveform in a shape, with timestamp 1000.0.
RecordOf(w, shape) ==
    [device_id |-> shape.device_id,
     timestamp |-> 1000,
     x |-> [j \in 1..Len(w) |-> w[j][1]] \o Repeat(FDec(9, 10), shape.extra[1]),
     y |-> [j \in 1..Len(w) |-> w[j][2]] \o Repeat(FDec(9, 10), shape.extra[2]),
     z |-> [j \in 1..Len(w) |-> w[j][3]] \o Repeat(FDec(9, 10), shape.extra[3]),
     sr |-> shape.sr]

\* Every waveform with axes of equal length, the shorter ones also with axes
\* of unequal length.
Records ==
    {RecordOf(w, EqualAxes) : w \in Waveforms} \cup
    {RecordOf(w, UnequalAxes) : w \in {v \in Waveforms : Len(v) <= MaxSamples - 2}}

\* The record of test_sta_lta_no_earthquake: 200 samples of 0.1 on each axis.
QuietRecord ==
    [device_id |-> "test-001",
     timestamp |-> 1000,
     x |-> Repeat(FDec(1, 10), 200),
     y |-> Repeat(FDec(1, 10), 200),
     z |-> Repeat(FDec(1, 10), 200),
     sr |-> FDec(3125, 100)]

\* The record of test_sta_lta_earthquake: x and y are 150 samples of 0.1 then
\* 50 samples of 10.0, z is 200 samples of 0.1.
SpikeRecord ==
    [device_id |-> "test-001",
     timestamp |-> 1000,
     x |-> Repeat(FDec(1, 10), 150) \o Repeat(FFromNat(10), 50),
     y |-> Repeat(FDec(1, 10), 150) \o Repeat(FFromNat(10), 50),
     z |-> Repeat(FDec(1, 10), 200),
     sr |-> FDec(3125, 100)]

\* The synthetic record of cmd_detect's simulate mode: 30 quiet samples of
\* 0.001, the 10 samples of the P-wave, 10 samples of 0.002.
SimulatedRecord ==
    [device_id |-> "demo-sensor-001",
     timestamp |-> 1000,
     x |-> Repeat(FDec(1, 1000), 30)
           \o <<FDec(2, 100), FDec(4, 100), FDec(8, 100), FDec(15, 100), FDec(25, 100),
              FDec(35, 100), FDec(30, 100), FDec(20, 100), FDec(10, 100), FDec(5, 100)>>
           \o Repeat(FDec(2, 1000), 10),
     y |-> Repeat(FDec(1, 1000), 30)
           \o <<FDec(1, 100), FDec(3, 100), FDec(6, 100), FDec(12, 100), FDec(20, 100),
              FDec(28, 100), FDec(24, 100), FDec(16, 100), FDec(8, 100), FDec(4, 100)>>
           \o Repeat(FDec(2, 1000), 10),
     z |-> Repeat(FDec(1, 1000), 30)
           \o <<FDec(1, 100), FDec(2, 100), FDec(4, 100), FDec(8, 100), FDec(12, 100),
              FDec(15, 100), FDec(12, 100), FDec(8, 100), FDec(5, 100), FDec(2, 100)>>
           \o Repeat(FDec(2, 1000), 10),
     sr |-> FDec(3125, 100)]

\* Window lengths in seconds handed to StaLtaDetector::new at 1 Hz: windows
\* of 0, 1, 2 (2.5 truncated) and 3 samples.
Seconds == {FZero, FFromNat(1), FDec(25, 10), FFromNat(3)}

\* Trigger thresholds handed to StaLtaDetector::new.
Thresholds == {FFromNat(1), FFromNat(3)}

\* The default detector, and detectors made by StaLtaDetector::new at 1 Hz:
\* every pair of windows with the lowest threshold, and every short window
\* with the longest long window for the other thresholds (the long window
\* over which the samples of the model reach a ratio above 3).
Detectors ==
    {StaLtaDetector_default} \cup
    {StaLtaDetector_new(s, c[1], FFromNat(1), c[2]) :
        s \in Seconds,
        c \in {p \in Seconds \X Thresholds :
                  p[2] # FFromNat(1) => p[1] = FFromNat(3)}}

DetInit ==
    /\ RingIdle
    /\ LiveIdle
    /\ FnIdle
    /\ SrvIdle
    /\ \/ detector \in Detectors /\ record_arg \in Records
       \/ detector = StaLtaDetector_default
          /\ record_arg \in {QuietRecord, SpikeRecord, SimulatedRecord}
    /\ dpc = "call"
    /\ n_samples = 0
    /\ pga_vec = <<>>
    /\ idx = 0
    /\ is_triggered = FALSE
    /\ detections = <<>>
    /\ evals = <<>>
    /\ returned = <<>>

\* What a call of detect leaves: the vector it returned, the trigger state it
\* ended in, and the detector and the record as they are at the return.
Outcome(vec, ended_triggered) ==
    [detections |-> vec, triggered |-> ended_triggered,
     detector |-> detector, record |-> record_arg]

\* detect() up to its for loop: n, the early return, the pga vector.
DetectCall ==
    /\ dpc = "call"
    /\ LET n == sample_count(record_arg)
       IN  /\ n_samples' = n
           /\ IF too_short(detector, n)
              THEN /\ dpc' = "done"
                   /\ returned' = Append(returned, Outcome(<<>>, FALSE))
                   /\ UNCHANGED <<pga_vec, idx, is_triggered>>
              ELSE IF pga_vector_panics(record_arg, n)
              THEN /\ dpc' = "panicked"
                   /\ UNCHANGED <<pga_vec, idx, is_triggered, returned>>
              ELSE /\ dpc' = "loop"
                   /\ pga_vec' = pga_vector(record_arg, n)
                   /\ idx' = first_index(detector)
                   /\ is_triggered' = triggered_at_entry(is_triggered)
                   /\ UNCHANGED returned
    /\ detections' = <<>>
    /\ evals' = <<>>
    /\ UNCHANGED <<detector, record_arg>>
    /\ UNCHANGED <<ring_vars, live_vars, fn_vars, srv_vars>>

\* One iteration of the for loop.
DetectStep ==
    /\ dpc = "loop"
    /\ idx < n_samples
    /\ IF windows_panic(detector, pga_vec, idx)
       THEN /\ dpc' = "panicked"
            /\ UNCHANGED <<idx, is_triggered, detections, evals>>
       ELSE /\ LET r == detect_index(detector, record_arg, pga_vec, idx,
                                     is_triggered)
               IN  /\ is_triggered' = r.after
                   /\ detections' = detections \o r.pushed
                   /\ evals' = Append(evals, r)
            /\ idx' = idx + 1
            /\ UNCHANGED dpc
    /\ UNCHANGED <<detector, record_arg, n_samples, pga_vec, returned>>
    /\ UNCHANGED <<ring_vars, live_vars, fn_vars, srv_vars>>

\* The loop is over: detect() returns detections.
DetectReturn ==
    /\ dpc = "loop"
    /\ idx >= n_samples
    /\ dpc' = "done"
    /\ returned' = Append(returned, Outcome(detections, is_triggered))
    /\ UNCHANGED <<detector, record_arg, n_samples, pga_vec, idx, is_triggered,
                   detections, evals>>
    /\ UNCHANGED <<ring_vars, live_vars, fn_vars, srv_vars>>

\* The caller calls detect() once more, on the same detector and record.
DetectAgain ==
    /\ dpc = "done"
    /\ Len(returned) = 1
    /\ dpc' = "call"
    /\ UNCHANGED <<detector, record_arg, n_samples, pga_vec, idx, is_triggered,
                   detections, evals, returned>>
    /\ UNCHANGED <<ring_vars, live_vars, fn_vars, srv_vars>>

DetNext ==
    \/ DetectCall
    \/ DetectStep
    \/ DetectReturn
    \/ DetectAgain

SpecDetect == DetInit /\ [][DetNext]_vars

----
(***************************************************************************)
(* The live stream's specification: cmd_live from its entry on.  Writes to *)
(* stdout succeed.                                                         *)
(***************************************************************************)

\* The events the feed can carry: us1 first reported without an alert and
\* then updated, us2 deep and without a magnitude, us3 with an alert.
Events ==
    { Feature("us1", 1000, <<45>>, <<140, 36, 10>>, <<>>),
      Feature("us1", 2000, <<52>>, <<140, 36, 10>>, <<"yellow">>),
      Feature("us2", 1000, <<>>, <<0, 0, 300>>, <<>>),
      Feature("us3", 2000, <<60>>, <<139, 35, 35>>, <<"red">>) }

\* feed.features of one fetch: at most two events.
Feeds == UNION {[1..k -> Events] : k \in 0..2}

\* The filters the command line can ask for.
Filters ==
    { EventFilter_default,
      [EventFilter_default EXCEPT !.min_magnitude = <<50>>],
      [EventFilter_default EXCEPT !.max_depth = <<100>>],
      [EventFilter_default EXCEPT
          !.bbox = <<[min_lat |-> 30, min_lon |-> 130,
                      max_lat |-> 40, max_lon |-> 145]>>],
      [EventFilter_default EXCEPT
          !.radius = <<[center_lat |-> 35, center_lon |-> 139,
                        radius_km |-> 100]>>],
      [EventFilter_default EXCEPT !.significant_only = TRUE] }

LiveInit ==
    /\ RingIdle
    /\ DetIdle
    /\ FnIdle
    /\ SrvIdle
    /\ lpc = "start"
    /\ filter \in Filters
    /\ dedup = NoRing
    /\ poll_count = 0
    /\ features = <<>>
    /\ at = 0
    /\ output = <<>>
    /\ handled = <<>>
    /\ fetches = <<>>

\* cmd_live up to its loop: the filter is built from the arguments and the
\* ring is constructed.
LiveStart ==
    /\ lpc = "start"
    /\ dedup' = with_default_capacity
    /\ lpc' = "poll"
    /\ UNCHANGED <<filter, poll_count, features, at, output, handled, fetches>>
    /\ UNCHANGED <<ring_vars, det_vars, fn_vars, srv_vars>>

\* How many fetches so far ended this way.  The model follows the loop for
\* MaxPolls successful fetches and MaxPolls - 1 failed ones, in any order.
FetchCount(ok) == Cardinality({k \in 1..Len(fetches) : fetches[k].ok = ok})

\* What a fetch leaves in the log: how it ended, and the ring and the length
\* of the output at that moment.
Fetched(ok) == [ok |-> ok, dedup |-> dedup, written |-> Len(output)]

\* client.fetch_feed returned Ok(feed).
FetchOk(feed) ==
    /\ lpc = "poll"
    /\ FetchCount(TRUE) < MaxPolls
    /\ poll_count' = poll_count + 1
    /\ features' = feed
    /\ at' = 1
    /\ lpc' = "events"
    /\ fetches' = Append(fetches, Fetched(TRUE))
    /\ UNCHANGED <<filter, dedup, output, handled>>
    /\ UNCHANGED <<ring_vars, det_vars, fn_vars, srv_vars>>

\* A bug the loop could have: a failed fetch starts over with a new ring.
FetchErr_new_ring ==
    /\ lpc = "poll"
    /\ FetchCount(FALSE) < MaxPolls - 1
    /\ poll_count' = poll_count + 1
    /\ fetches' = Append(fetches, Fetched(FALSE))
    /\ dedup' = with_default_capacity
    /\ UNCHANGED <<lpc, filter, features, at, output, handled>>
    /\ UNCHANGED <<ring_vars, det_vars, fn_vars, srv_vars>>

\* client.fetch_feed returned Err: a warning, the sleep, the next poll.
FetchErr ==
    /\ lpc = "poll"
    /\ FetchCount(FALSE) < MaxPolls - 1
    /\ poll_count' = poll_count + 1
    /\ fetches' = Append(fetches, Fetched(FALSE))
    /\ UNCHANGED <<lpc, filter, dedup, features, at, output, handled>>
    /\ UNCHANGED <<ring_vars, det_vars, fn_vars, srv_vars>>

\* One iteration of `for event in &feed.features`.
LiveEvent ==
    /\ lpc = "events"
    /\ at <= Len(features)
    /\ LET event == features[at]
           r == live_event(filter, dedup, event)
       IN  /\ dedup' = r.dedup
           /\ output' = output \o r.written
           /\ handled' = Append(handled,
                  [event |-> event, called |-> r.called, result |-> r.result,
                   written |-> r.written, before |-> dedup, after |-> r.dedup,
                   poll |-> poll_count])
    /\ at' = at + 1
    /\ UNCHANGED <<lpc, filter, poll_count, features, fetches>>
    /\ UNCHANGED <<ring_vars, det_vars, fn_vars, srv_vars>>

\* The for loop is over: the sleep, the next poll.
EndOfFeed ==
    /\ lpc = "events"
    /\ at > Len(features)
    /\ lpc' = "poll"
    /\ UNCHANGED <<filter, dedup, poll_count, features, at, output, handled,
                   fetches>>
    /\ UNCHANGED <<ring_vars, det_vars, fn_vars, srv_vars>>

LiveNext ==
    \/ LiveStart
    \/ \E feed \in Feeds : FetchOk(feed)
    \/ FetchErr
    \/ LiveEvent
    \/ EndOfFeed

SpecLive == LiveInit /\ [][LiveNext]_vars

----
(***************************************************************************)
(* The web server's specification: run_server from the spawn of the        *)
(* polling task on.  poll_earthquakes runs on the multi-thread runtime     *)
(* while the /start and /stop handlers run on other workers, so a handler  *)
(* can store to feed_active between any two steps of the polling task.     *)
(***************************************************************************)

\* A bug the polling task could have: the id is recorded as seen before the
\* filter is asked.
poll_event_mark_first(self, seen, event) ==
    IF event.id \in seen
    THEN [seen |-> seen, sent |-> <<>>]
    ELSE IF ~matches(self, event)
    THEN [seen |-> seen \cup {event.id}, sent |-> <<>>]
    ELSE [seen |-> seen \cup {event.id}, sent |-> <<event>>]

\* The body of `for event in feed.features` in poll_earthquakes: the ids seen
\* after it, and the event whose HTML is sent on the channel, if any.
poll_event(self, seen, event) ==
    IF event.id \in seen
    THEN [seen |-> seen, sent |-> <<>>]
    ELSE IF ~matches(self, event)
    THEN [seen |-> seen, sent |-> <<>>]
    ELSE [seen |-> seen \cup {event.id}, sent |-> <<event>>]

\* The configurations the server is started with: no criterion, or a minimum
\* magnitude.
ServerConfigs ==
    { [filter |-> EventFilter_default],
      [filter |-> [EventFilter_default EXCEPT !.min_magnitude = <<50>>]] }

\* run_server: the flag starts true, the polling task is spawned with an
\* empty seen_ids.
SrvInit ==
    /\ RingIdle
    /\ DetIdle
    /\ LiveIdle
    /\ FnIdle
    /\ spc = "check"
    /\ config \in ServerConfigs
    /\ feed_active = TRUE
    /\ seen_ids = {}
    /\ srv_features = <<>>
    /\ srv_at = 0
    /\ srv_fetches = <<>>
    /\ broadcasts = <<>>

\* The model follows the polling task for MaxPolls fetches, each of which
\* succeeds or fails.
MoreFetches == Len(srv_fetches) < MaxPolls

\* if !state.feed_active.load(Ordering::Relaxed) { sleep(1s); continue; }
PollCheck ==
    /\ spc = "check"
    /\ spc' = IF feed_active THEN "fetch" ELSE "paused"
    /\ UNCHANGED <<config, feed_active, seen_ids, srv_features, srv_at,
                   srv_fetches, broadcasts>>
    /\ UNCHANGED <<ring_vars, det_vars, live_vars, fn_vars>>

\* The one-second sleep of the inactive feed is over: `continue`.
PollPausedWake ==
    /\ spc = "paused"
    /\ spc' = "check"
    /\ UNCHANGED <<config, feed_active, seen_ids, srv_features, srv_at,
                   srv_fetches, broadcasts>>
    /\ UNCHANGED <<ring_vars, det_vars, live_vars, fn_vars>>

\* client.fetch_feed returned Ok(feed).
PollFetchOk(feed) ==
    /\ spc = "fetch"
    /\ MoreFetches
    /\ srv_features' = feed
    /\ srv_at' = 1
    /\ spc' = "events"
    /\ srv_fetches' = Append(srv_fetches, [ok |-> TRUE, active |-> feed_active])
    /\ UNCHANGED <<config, feed_active, seen_ids, broadcasts>>
    /\ UNCHANGED <<ring_vars, det_vars, live_vars, fn_vars>>

\* client.fetch_feed returned Err: a warning, the sleep, the next iteration.
PollFetchErr ==
    /\ spc = "fetch"
    /\ MoreFetches
    /\ spc' = "check"
    /\ srv_fetches' = Append(srv_fetches, [ok |-> FALSE, active |-> feed_active])
    /\ UNCHANGED <<config, feed_active, seen_ids, srv_features, srv_at,
                   broadcasts>>
    /\ UNCHANGED <<ring_vars, det_vars, live_vars, fn_vars>>

\* One iteration of `for event in feed.features`.
PollEvent ==
    /\ spc = "events"
    /\ srv_at <= Len(srv_features)
    /\ LET r == poll_event(config.filter, seen_ids, srv_features[srv_at])
       IN  /\ seen_ids' = r.seen
           /\ broadcasts' =
                  IF r.sent = <<>>
                  THEN broadcasts
                  ELSE Append(broadcasts,
                              [event |-> r.sent[1],
                               fetch |-> Len(srv_fetches),
                               active |-> feed_active])
    /\ srv_at' = srv_at + 1
    /\ UNCHANGED <<spc, config, feed_active, srv_features, srv_fetches>>
    /\ UNCHANGED <<ring_vars, det_vars, live_vars, fn_vars>>

\* The for loop is over: the sleep of poll_interval, the next iteration.
PollEndOfFeed ==
    /\ spc = "events"
    /\ srv_at > Len(srv_features)
    /\ spc' = "check"
    /\ UNCHANGED <<config, feed_active, seen_ids, srv_features, srv_at,
                   srv_fetches, broadcasts>>
    /\ UNCHANGED <<ring_vars, det_vars, live_vars, fn_vars>>

\* start_feed_handler: state.feed_active.store(true, Ordering::Relaxed)
StartFeed ==
    /\ spc # "idle"
    /\ feed_active' = TRUE
    /\ UNCHANGED <<spc, config, seen_ids, srv_features, srv_at, srv_fetches,
                   broadcasts>>
    /\ UNCHANGED <<ring_vars, det_vars, live_vars, fn_vars>>

\* stop_feed_handler: state.feed_active.store(false, Ordering::Relaxed)
StopFeed ==
    /\ spc # "idle"
    /\ feed_active' = FALSE
    /\ UNCHANGED <<spc, config, seen_ids, srv_features, srv_at, srv_fetches,
                   broadcasts>>
    /\ UNCHANGED <<ring_vars, det_vars, live_vars, fn_vars>>

SrvNext ==
    \/ PollCheck
    \/ PollPausedWake
    \/ \E feed \in Feeds : PollFetchOk(feed)
    \/ PollFetchErr
    \/ PollEvent
    \/ PollEndOfFeed
    \/ StartFeed
    \/ StopFeed

SpecServer == SrvInit /\ [][SrvNext]_vars

----
(***************************************************************************)
(* The specification of the pure functions: one call per behaviour.        *)
(***************************************************************************)

\* PGA values handed to the classifier and to the estimator: the band
\* boundaries, their neighbours, and the extremes.
PgaValues ==
    { FZero, FNeg(FFromNat(1)), FNaN, FInf(FALSE),
      FDec(5, 100), F(13421772, -27), FDec(1, 10), FDec(5, 10), FDec(9, 10),
      F(TwoTo24 - 1, -24), FFromNat(1), FFromNat(2), FDec(299, 100), FFromNat(3),
      FFromNat(5), FDec(999, 100), FFromNat(10), FFromNat(25), FDec(499, 10),
      FFromNat(50), FFromNat(100), FDec(1499, 10), FFromNat(150), FFromNat(200),
      FFromNat(4000000), FFromNat(10000000) }

\* Calls of AlertLevel::from_pga, two at a time.
FromPgaCalls ==
    {[fn |-> "from_pga", args |-> <<a, b>>] : a \in PgaValues, b \in PgaValues}

\* Calls of estimate_magnitude_from_pga, two at a time.
EstimateCalls ==
    {[fn |-> "estimate_magnitude_from_pga", args |-> <<a, b>>] :
        a \in PgaValues, b \in PgaValues}

\* The filters of every combination of criteria.
MatchFilters ==
    { [min_magnitude |-> mm, max_depth |-> md, bbox |-> bb, radius |-> rr,
       significant_only |-> so] :
        mm \in {<<>>, <<50>>},
        md \in {<<>>, <<100>>},
        bb \in {<<>>, <<[min_lat |-> 30, min_lon |-> 130,
                          max_lat |-> 40, max_lon |-> 145]>>},
        rr \in {<<>>, <<[center_lat |-> 35, center_lon |-> 139,
                          radius_km |-> 100]>>},
        so \in BOOLEAN }

\* Events with every combination of magnitude (none, below, at and above the
\* minimum), place, depth and alert (none, the empty string, a tier).
MatchEvents ==
    { Feature("us1", 1000, mag, <<place[2], place[1], depth>>, alert) :
        mag \in {<<>>, <<45>>, <<50>>, <<60>>},
        place \in {<<35, 139>>, <<36, 140>>, <<0, 0>>},
        depth \in {10, 100, 300},
        alert \in {<<>>, <<"">>, <<"red">>} }

\* Calls of EventFilter::matches.
MatchCalls ==
    {[fn |-> "matches", args |-> <<f, e>>] : f \in MatchFilters, e \in MatchEvents}

\* What a field of a bounding-box string may hold: numbers in and out of
\* range, padded, malformed and empty fields, NaN and the infinities.
BBoxTokens ==
    {
      <<"3", "2", ".", "5">>,   \* "32.5"
      <<"-", "1", "2", "4", ".", "5">>,   \* "-124.5"
      <<"4", "2", ".", "0">>,   \* "42.0"
      <<"-", "1", "1", "4", ".", "0">>,   \* "-114.0"
      <<"0">>,   \* "0"
      <<"9", "0">>,   \* "90"
      <<"-", "9", "0">>,   \* "-90"
      <<"9", "1">>,   \* "91"
      <<"-", "9", "1">>,   \* "-91"
      <<"1", "8", "0">>,   \* "180"
      <<"-", "1", "8", "0">>,   \* "-180"
      <<"1", "8", "1">>,   \* "181"
      <<"-", "1", "8", "1">>,   \* "-181"
      <<" ", "3", "7", ".", "0", " ">>,   \* " 37.0 "
      <<"a", "b", "c">>,   \* "abc"
      <<>>,   \* ""
      <<"N", "a", "N">>,   \* "NaN"
      <<"i", "n", "f">>,   \* "inf"
      <<"-", "i", "n", "f">>,   \* "-inf"
      <<".", "5">>,   \* ".5"
      <<"5", ".">>,   \* "5."
      <<".">>,   \* "."
      <<"-">>,   \* "-"
      <<"+", "5">>,   \* "+5"
      <<"1", ".", "2", ".", "3">>    \* "1.2.3"
    }

\* The fields joined with commas.
RECURSIVE join(_)
join(fields) ==
    IF fields = <<>> THEN <<>>
    ELSE IF Len(fields) = 1 THEN fields[1]
    ELSE fields[1] \o <<",">> \o join(Tail(fields))

\* "32.5,-124.5,42.0,-114.0", the string of test_bbox_parse, by fields.
TestBBoxFields == <<<<"3", "2", ".", "5">>, <<"-", "1", "2", "4", ".", "5">>, <<"4", "2", ".", "0">>, <<"-", "1", "1", "4", ".", "0">>>>

\* The test's string with up to two fields replaced, with a field dropped,
\* with a field added, and the empty string.
BBoxStrings ==
    { join([[TestBBoxFields EXCEPT ![p] = a] EXCEPT ![q] = b]) :
        p \in 1..4, q \in 1..4, a \in BBoxTokens, b \in BBoxTokens }
    \cup { join(SubSeq(TestBBoxFields, 1, 3)), <<>> }
    \cup { join(Append(TestBBoxFields, a)) : a \in BBoxTokens }

\* Calls of "...".parse::<BBox>().
BBoxParseCalls == {[fn |-> "BBox_from_str", args |-> <<s>>] : s \in BBoxStrings}

\* What a field of a radius string may hold.
RadiusTokens ==
    {
      <<"3", "7", ".", "7", "7">>,   \* "37.77"
      <<"-", "1", "2", "2", ".", "4", "1">>,   \* "-122.41"
      <<"5", "0", "0">>,   \* "500"
      <<"0">>,   \* "0"
      <<"0", ".", "0">>,   \* "0.0"
      <<"-", "0">>,   \* "-0"
      <<"-", "5">>,   \* "-5"
      <<"0", ".", "0", "0", "1">>,   \* "0.001"
      <<"9", "0">>,   \* "90"
      <<"-", "9", "0">>,   \* "-90"
      <<"9", "1">>,   \* "91"
      <<"-", "9", "1">>,   \* "-91"
      <<"1", "8", "0">>,   \* "180"
      <<"-", "1", "8", "1">>,   \* "-181"
      <<"1", "8", "1">>,   \* "181"
      <<" ", "1", "0", "0", " ">>,   \* " 100 "
      <<"a", "b", "c">>,   \* "abc"
      <<>>,   \* ""
      <<"N", "a", "N">>,   \* "NaN"
      <<"n", "a", "n">>,   \* "nan"
      <<"i", "n", "f">>,   \* "inf"
      <<"-", "i", "n", "f">>,   \* "-inf"
      <<".">>,   \* "."
      <<"1", ".", "2", ".", "3">>    \* "1.2.3"
    }

\* "37.77,-122.41,500", the string of test_radius_parse, by fields.
TestRadiusFields == <<<<"3", "7", ".", "7", "7">>, <<"-", "1", "2", "2", ".", "4", "1">>, <<"5", "0", "0">>>>

\* The test's string with up to two fields replaced, with a field dropped,
\* with a field added, and the empty string.
RadiusStrings ==
    { join([[TestRadiusFields EXCEPT ![p] = a] EXCEPT ![q] = b]) :
        p \in 1..3, q \in 1..3, a \in RadiusTokens, b \in RadiusTokens }
    \cup { join(SubSeq(TestRadiusFields, 1, 2)), <<>> }
    \cup { join(Append(TestRadiusFields, a)) : a \in RadiusTokens }

\* Calls of "...".parse::<RadiusFilter>().
RadiusParseCalls ==
    {[fn |-> "RadiusFilter_from_str", args |-> <<s>>] : s \in RadiusStrings}

\* The box of test_bbox_contains ("32.5,-124.5,42.0,-114.0"), in tenths of a
\* degree.
TestBBox ==
    [min_lat |-> 325, min_lon |-> -1245, max_lat |-> 420, max_lon |-> -1140]

\* The test's box, a box of one point, a box across the equator and the prime
\* meridian, and a box with min_lon > max_lon (which the parser accepts).
ContainsBoxes ==
    { TestBBox,
      [min_lat |-> 100, min_lon |-> 200, max_lat |-> 100, max_lon |-> 200],
      [min_lat |-> -50, min_lon |-> -50, max_lat |-> 50, max_lon |-> 50],
      [min_lat |-> 0, min_lon |-> 1700, max_lat |-> 100, max_lon |-> -1700] }

\* Along one axis: a tenth below the lower edge, on it, between the edges,
\* on the upper edge and a tenth above it.
AxisPoints(lo, hi) == {lo - 1, lo, (lo + hi) \div 2, hi, hi + 1}

\* Calls of bbox.contains(lat, lon): around every box, and the two points of
\* test_bbox_contains, (37.0, -120.0) and (50.0, -120.0).
ContainsCalls ==
    { [fn |-> "BBox_contains", args |-> <<b, lat, lon>>] :
        b \in ContainsBoxes,
        lat \in UNION {AxisPoints(c.min_lat, c.max_lat) : c \in ContainsBoxes}
                  \cup {370, 500},
        lon \in UNION {AxisPoints(c.min_lon, c.max_lon) : c \in ContainsBoxes}
                  \cup {-1200} }

\* An f64 with at most one decimal, in tenths.
Tenths(d) == (d.num * 10) \div d.den

\* A parsed box in tenths of a degree.
BBoxInTenths(b) ==
    [min_lat |-> Tenths(b.min_lat), min_lon |-> Tenths(b.min_lon),
     max_lat |-> Tenths(b.max_lat), max_lon |-> Tenths(b.max_lon)]

\* Box strings with min_lon > max_lon (boxes meant to cross the
\* antimeridian, the test's box with its longitudes exchanged, a box of
\* half a degree), the test's box and a box with min_lon = max_lon.
LonBoxStrings ==
    {
      <<"0", ",", "1", "7", "0", ",", "1", "0", ",", "-", "1", "7", "0">>,
      <<"3", "2", ".", "5", ",", "-", "1", "1", "4", ".", "0", ",", "4", "2", ".", "0", ",", "-", "1", "2", "4", ".", "5">>,
      <<"-", "1", "0", ",", "1", "8", "0", ",", "1", "0", ",", "-", "1", "8", "0">>,
      <<"0", ",", "0", ".", "5", ",", "1", "0", ",", "0">>,
      <<"3", "2", ".", "5", ",", "-", "1", "2", "4", ".", "5", ",", "4", "2", ".", "0", ",", "-", "1", "1", "4", ".", "0">>,
      <<"0", ",", "1", "7", "0", ",", "1", "0", ",", "1", "7", "0">>
    }

\* Calls of s.parse::<BBox>().unwrap().contains(lat, lon), with points inside
\* and outside the latitudes, on both sides of the antimeridian, on the
\* box's own longitudes and elsewhere.
ParseContainsCalls ==
    { [fn |-> "BBox_parse_contains", args |-> <<s, lat, lon>>] :
        s \in LonBoxStrings,
        lat \in {-900, -100, 0, 50, 100, 325, 370, 420, 900},
        lon \in {-1800, -1750, -1700, -1245, -1200, -1140, 0, 3, 5,
                 1700, 1750, 1800} }

\* struct Feature, with the fields the tail command reads.
TailFeature(id, time, mag) ==
    [id |-> id,
     geometry |-> [coordinates |-> <<139, 35, 10>>],
     properties |-> [mag |-> mag, time |-> time, updated |-> time,
                     alert |-> <<>>]]

\* feed.features.iter().filter(|e| filter.matches(e)).collect()
filter_events(self, feed) == SelectSeq(feed, LAMBDA e : matches(self, e))

\* Where a stable sort by time descending puts e among the sorted events:
\* after every event that is not earlier.
RECURSIVE insert_by_time(_, _)
insert_by_time(sorted, e) ==
    IF sorted = <<>> THEN <<e>>
    ELSE IF Head(sorted).properties.time >= e.properties.time
    THEN <<Head(sorted)>> \o insert_by_time(Tail(sorted), e)
    ELSE <<e>> \o sorted

\* events.sort_by(|a, b| b.properties.time.cmp(&a.properties.time)): a
\* stable sort, most recent first.
RECURSIVE sort_by_time(_)
sort_by_time(events) ==
    IF events = <<>> THEN <<>>
    ELSE insert_by_time(sort_by_time(SubSeq(events, 1, Len(events) - 1)),
                        events[Len(events)])

\* Vec::truncate
truncate(events, limit) == SubSeq(events, 1, usize_min(limit, Len(events)))

\* A bug cmd_tail could have: the events are cut to the limit before they
\* are sorted.
cmd_tail_truncate_first(self, feed, limit) ==
    sort_by_time(truncate(filter_events(self, feed), limit))

\* cmd_tail: the events handed to output::write_events.
cmd_tail(self, feed, limit) ==
    truncate(sort_by_time(filter_events(self, feed)), limit)

\* Events of a feed: two of the same time, one of which is below magnitude
\* 5.0, an earlier one and a later one.
TailEvents ==
    { TailFeature("us1", 3000, <<60>>),
      TailFeature("us2", 3000, <<45>>),
      TailFeature("us3", 1000, <<52>>),
      TailFeature("us4", 4000, <<55>>) }

\* feed.features of at most three events, in any order.
TailFeeds == UNION {[1..k -> TailEvents] : k \in 0..3}

\* Calls of cmd_tail: with and without a minimum magnitude, limits from 0 to
\* the length of the longest feed.
TailCalls ==
    { [fn |-> "cmd_tail", args |-> <<f, feed, limit>>] :
        f \in {EventFilter_default,
                [EventFilter_default EXCEPT !.min_magnitude = <<50>>]},
        feed \in TailFeeds,
        limit \in 0..3 }

Calls ==
    TailCalls \cup ParseContainsCalls \cup FromPgaCalls \cup EstimateCalls \cup MatchCalls \cup BBoxParseCalls
        \cup RadiusParseCalls \cup ContainsCalls

CallsInit ==
    /\ RingIdle
    /\ DetIdle
    /\ LiveIdle
    /\ SrvIdle
    /\ fn_call \in Calls
    /\ fn_ret = <<>>

\* AlertLevel::from_pga(a); AlertLevel::from_pga(b);
CallFromPga ==
    /\ fn_call.fn = "from_pga"
    /\ fn_ret = <<>>
    /\ fn_ret' = <<[a |-> from_pga(fn_call.args[1]),
                    b |-> from_pga(fn_call.args[2])]>>
    /\ UNCHANGED fn_call
    /\ UNCHANGED <<ring_vars, det_vars, live_vars, srv_vars>>

\* estimate_magnitude_from_pga(a); estimate_magnitude_from_pga(b);
CallEstimate ==
    /\ fn_call.fn = "estimate_magnitude_from_pga"
    /\ fn_ret = <<>>
    /\ fn_ret' = <<[a |-> estimate_magnitude_from_pga(fn_call.args[1]),
                    b |-> estimate_magnitude_from_pga(fn_call.args[2])]>>
    /\ UNCHANGED fn_call
    /\ UNCHANGED <<ring_vars, det_vars, live_vars, srv_vars>>

\* filter.matches(event), with what each of its five checks returns.
CallMatches ==
    /\ fn_call.fn = "matches"
    /\ fn_ret = <<>>
    /\ LET self == fn_call.args[1]
           event == fn_call.args[2]
       IN  fn_ret' = <<[matches |-> matches(self, event),
                        magnitude |-> check_magnitude(self, event),
                        depth |-> check_depth(self, event),
                        bbox |-> check_bbox(self, event),
                        radius |-> check_radius(self, event),
                        significant |-> check_significant(self, event)]>>
    /\ UNCHANGED fn_call
    /\ UNCHANGED <<ring_vars, det_vars, live_vars, srv_vars>>

\* s.parse::<BBox>()
CallParseBBox ==
    /\ fn_call.fn = "BBox_from_str"
    /\ fn_ret = <<>>
    /\ fn_ret' = <<BBox_from_str(fn_call.args[1])>>
    /\ UNCHANGED fn_call
    /\ UNCHANGED <<ring_vars, det_vars, live_vars, srv_vars>>

\* s.parse::<RadiusFilter>()
CallParseRadius ==
    /\ fn_call.fn = "RadiusFilter_from_str"
    /\ fn_ret = <<>>
    /\ fn_ret' = <<RadiusFilter_from_str(fn_call.args[1])>>
    /\ UNCHANGED fn_call
    /\ UNCHANGED <<ring_vars, det_vars, live_vars, srv_vars>>

\* bbox.contains(lat, lon)
CallContains ==
    /\ fn_call.fn = "BBox_contains"
    /\ fn_ret = <<>>
    /\ fn_ret' = <<BBox_contains(fn_call.args[1], fn_call.args[2],
                                 fn_call.args[3])>>
    /\ UNCHANGED fn_call
    /\ UNCHANGED <<ring_vars, det_vars, live_vars, srv_vars>>

\* let bbox: BBox = s.parse().unwrap(); bbox.contains(lat, lon)
CallParseContains ==
    /\ fn_call.fn = "BBox_parse_contains"
    /\ fn_ret = <<>>
    /\ LET parsed == BBox_from_str(fn_call.args[1])
       IN  fn_ret' =
               <<[parsed |-> parsed,
                  inside |-> IF parsed.ok
                             THEN <<BBox_contains(BBoxInTenths(parsed.val),
                                                  fn_call.args[2],
                                                  fn_call.args[3])>>
                             ELSE <<>>]>>
    /\ UNCHANGED fn_call
    /\ UNCHANGED <<ring_vars, det_vars, live_vars, srv_vars>>

\* seismotail tail: fetch, filter, sort, truncate, write.
CallTail ==
    /\ fn_call.fn = "cmd_tail"
    /\ fn_ret = <<>>
    /\ fn_ret' = <<cmd_tail(fn_call.args[1], fn_call.args[2], fn_call.args[3])>>
    /\ UNCHANGED fn_call
    /\ UNCHANGED <<ring_vars, det_vars, live_vars, srv_vars>>

CallsNext ==
    \/ CallFromPga
    \/ CallEstimate
    \/ CallMatches
    \/ CallParseBBox
    \/ CallParseRadius
    \/ CallContains
    \/ CallParseContains
    \/ CallTail

SpecCalls == CallsInit /\ [][CallsNext]_vars

----
\* Helpers for the properties.

\* The ids the ring tracks.
Tracked(self) == {self.seen[i].id : i \in 1..Len(self.seen)}

\* The time the ring stores for a tracked id.
Stored(self, id) ==
    self.seen[CHOOSE i \in 1..Len(self.seen) : self.seen[i].id = id].updated

\* The ids of a sequence of entries or of logged calls, in order.
IdsOf(s) == [i \in 1..Len(s) |-> s[i].id]

Last(s) == s[Len(s)]

\* The results the logged calls returned, in order.
Results == [i \in 1..Len(log) |-> log[i].result]

\* How many logged calls returned result.
CountResult(result) == Cardinality({i \in 1..Len(log) : log[i].result = result})

\* This step is a call of check_and_mark.
IsCall == pc = "ready" /\ Len(log') = Len(log) + 1

\* The first n logged calls carry n different ids.
FirstDistinct(n) ==
    /\ Len(log) >= n
    /\ \A i, j \in 1..n : i # j => log[i].id # log[j].id

\* Logged call i resubmits logged call j: same id, same update time.
Resubmits(i, j) ==
    /\ i \in 1..Len(log) /\ j \in 1..Len(log)
    /\ log[i].id = log[j].id
    /\ log[i].updated = log[j].updated

\* A fresh ring fed a sequence of calls: the ring it ends as and the results.
RECURSIVE Replay(_, _)
Replay(self, calls) ==
    IF calls = <<>>
    THEN [self |-> self, results |-> <<>>]
    ELSE LET out == check_and_mark(self, Head(calls).id, Head(calls).updated)
             rest == Replay(out.self, Tail(calls))
         IN  [self |-> rest.self, results |-> <<out.result>> \o rest.results]

----
\* C1: check_and_mark(id, t) on a ring that does not track id returns New; an
\* immediately following call with the same id and t returns Duplicate; a call
\* with a time strictly greater than the stored one returns Updated and makes
\* it the stored time; a call with a time less than or equal to the stored one
\* returns Duplicate.
C1_Step ==
    IsCall =>
        LET e == Last(log')
        IN  /\ e.id \notin Tracked(ring) =>
                   /\ e.result = "New"
                   /\ e.id \in Tracked(ring')
                   /\ Stored(ring', e.id) = e.updated
            /\ ( /\ log # <<>>
                 /\ Last(log).result = "New"
                 /\ Last(log).id = e.id
                 /\ Last(log).updated = e.updated ) => e.result = "Duplicate"
            /\ (e.id \in Tracked(ring) /\ e.updated > Stored(ring, e.id)) =>
                   /\ e.result = "Updated"
                   /\ Stored(ring', e.id) = e.updated
            /\ (e.id \in Tracked(ring) /\ e.updated <= Stored(ring, e.id)) =>
                   /\ e.result = "Duplicate"
                   /\ Stored(ring', e.id) = Stored(ring, e.id)

C1_Classification == [][C1_Step]_vars

\* New, Duplicate (same time), Updated (greater time), Duplicate (time not
\* above the stored one), four calls in a row on one id.
C1_Witness ==
    \E i \in 1..(Len(log) - 3) :
        /\ \A j \in 1..3 : log[i + j].id = log[i].id
        /\ log[i].result = "New"
        /\ log[i + 1].updated = log[i].updated /\ log[i + 1].result = "Duplicate"
        /\ log[i + 2].updated > log[i].updated /\ log[i + 2].result = "Updated"
        /\ log[i + 3].updated <= log[i + 2].updated
        /\ log[i + 3].result = "Duplicate"
        /\ Stored(ring, log[i].id) = log[i + 2].updated

\* C2: a ring constructed with capacity k > 0 never holds more than k entries,
\* whatever check_and_mark and clear calls are made.
C2_Bounded == pc = "ready" => (ring.capacity > 0 /\ len(ring) <= ring.capacity)

\* A full ring that has already been offered more new ids than it can hold.
C2_Witness ==
    /\ pc = "ready"
    /\ len(ring) = ring.capacity
    /\ CountResult("New") > ring.capacity

\* C3: eviction is FIFO by insertion order.  After k+1 distinct ids are
\* inserted in order into an empty ring of capacity k, exactly the first one
\* is no longer tracked and len is k; resubmitting the first id with its
\* original update time returns New.
C3_FifoEviction ==
    pc = "ready" =>
        LET k == ring.capacity
        IN  /\ (Len(log) = k + 1 /\ FirstDistinct(k + 1)) =>
                   /\ len(ring) = k
                   /\ log[1].id \notin Tracked(ring)
                   /\ IdsOf(ring.seen) = [i \in 1..k |-> log[i + 1].id]
            /\ (Len(log) = k + 2 /\ FirstDistinct(k + 1) /\ Resubmits(k + 2, 1)) =>
                   log[k + 2].result = "New"

\* Capacity at least 2, k+1 distinct ids, then the first id again: New.
C3_Witness ==
    /\ pc = "ready"
    /\ ring.capacity >= 2
    /\ Len(log) = ring.capacity + 2
    /\ FirstDistinct(ring.capacity + 1)
    /\ Resubmits(ring.capacity + 2, 1)
    /\ Last(log).result = "New"

\* C4: in a ring of capacity k, after k+1 distinct ids have been inserted and
\* the first id has been resubmitted (New), the 2nd through (k+1)-th ids are
\* all still tracked: resubmitting the second id with its original update time
\* returns Duplicate.
C4_RemainingTracked ==
    pc = "ready" =>
        LET k == ring.capacity
        IN  /\ ( /\ Len(log) = k + 2
                 /\ FirstDistinct(k + 1)
                 /\ Resubmits(k + 2, 1)
                 /\ log[k + 2].result = "New" ) =>
                   \A i \in 2..(k + 1) : log[i].id \in Tracked(ring)
            /\ ( /\ Len(log) = k + 3
                 /\ FirstDistinct(k + 1)
                 /\ Resubmits(k + 2, 1)
                 /\ log[k + 2].result = "New"
                 /\ Resubmits(k + 3, 2) ) =>
                   log[k + 3].result = "Duplicate"

\* C5: an Updated result overwrites the stored time in place and keeps the
\* entry's position, so in a full ring the next insertion of a new id evicts
\* the earliest-inserted entry, also when that entry has just been Updated.
C5_Step ==
    IsCall =>
        LET e == Last(log')
        IN  /\ e.result = "Updated" =>
                   /\ IdsOf(ring'.seen) = IdsOf(ring.seen)
                   /\ \A i \in 1..Len(ring.seen) :
                          ring'.seen[i].updated =
                              IF ring.seen[i].id = e.id THEN e.updated
                              ELSE ring.seen[i].updated
            /\ (e.result = "New" /\ len(ring) >= ring.capacity) =>
                   /\ ring'.seen =
                          Append(Tail(ring.seen), SeenEntry(e.id, e.updated))
                   /\ ( /\ log # <<>>
                        /\ Last(log).result = "Updated"
                        /\ Last(log).id = Head(ring.seen).id ) =>
                          Last(log).id \notin Tracked(ring')

C5_NoRefresh == [][C5_Step]_vars

\* In a ring of capacity at least 2 the oldest entry was Updated and the very
\* next call, a new id, evicted it.
C5_Witness ==
    /\ pc = "ready"
    /\ ring.capacity >= 2
    /\ Len(log) > ring.capacity + 1
    /\ log[Len(log) - 1].result = "Updated"
    /\ Last(log).result = "New"
    /\ log[Len(log) - 1].id \notin Tracked(ring)

\* C6: since construction or the last clear, total_seen is the number of
\* check_and_mark calls, total_dupes is the number of Duplicate results (New
\* and Updated leave it alone), and total_dupes <= total_seen.
C6_Counters ==
    pc = "ready" =>
        /\ ring.total_seen = Len(log)
        /\ ring.total_dupes = CountResult("Duplicate")
        /\ ring.total_dupes <= ring.total_seen

\* All three results have been returned since the last reset.
C6_Witness ==
    /\ pc = "ready"
    /\ \A r \in DedupeResult : CountResult(r) >= 1
    /\ ring.total_dupes < ring.total_seen

\* C7: dupe_rate() is 0.0 when total_seen is 0 and otherwise exactly
\* total_dupes / total_seen, so it always lies in [0, 1]; New, Duplicate,
\* Duplicate, New gives 2/4.
C7_DupeRate ==
    pc = "ready" =>
        LET rate == dupe_rate(ring)
        IN  /\ rate.den > 0
            /\ 0 <= rate.num /\ rate.num <= rate.den
            /\ ring.total_seen = 0 => rate.num = 0
            /\ ring.total_seen # 0 =>
                   rate.num * ring.total_seen = ring.total_dupes * rate.den
            /\ Results = <<"New", "Duplicate", "Duplicate", "New">> =>
                   rate.num * 4 = 2 * rate.den

\* The sequence of test_dupe_rate: the rate is one half.
C7_Witness ==
    /\ pc = "ready"
    /\ Results = <<"New", "Duplicate", "Duplicate", "New">>
    /\ dupe_rate(ring).num * 2 = dupe_rate(ring).den

\* C8: clear() empties the ring, zeroes both counters and keeps the capacity;
\* afterwards every sequence of check_and_mark calls returns the same results
\* and leaves the same ring and counters as on new(capacity).
C8_ClearIsFresh ==
    (pc = "ready" /\ cleared) =>
        LET fresh == Replay(new(cap_arg), log)
        IN  /\ ring.capacity = cap_arg
            /\ ring = fresh.self
            /\ Results = fresh.results
            /\ log = <<>> => ring = new(cap_arg)

\* A cleared ring that has since overflowed and returned every result.
C8_Witness ==
    /\ pc = "ready"
    /\ cleared
    /\ CountResult("New") > ring.capacity
    /\ CountResult("Updated") >= 1
    /\ CountResult("Duplicate") >= 1

\* C9: new(0) panics and never yields a usable ring; for every capacity > 0
\* construction succeeds with len = 0, total_seen = 0 and total_dupes = 0.
C9_Construction ==
    /\ pc = "panicked" =>
           /\ cap_arg = 0 /\ ring = NoRing /\ log = <<>> /\ ~cleared
           /\ ~ENABLED Next
    /\ pc = "ready" => (cap_arg > 0 /\ ring.capacity = cap_arg)
    /\ (pc = "ready" /\ log = <<>> /\ ~cleared) =>
           (len(ring) = 0 /\ ring.total_seen = 0 /\ ring.total_dupes = 0)
    /\ (pc # "start" /\ cap_arg > 0) => pc = "ready"

\* The constructor was given capacity 0 and panicked.
C9_Witness == pc = "panicked" /\ cap_arg = 0

\* C10: should_emit is true exactly for New and Updated and false for
\* Duplicate; is_update is true exactly for Updated; every result with
\* is_update also has should_emit.
C10_EmitFlags ==
    \A i \in 1..Len(log) :
        /\ log[i].emit = (log[i].result \in {"New", "Updated"})
        /\ log[i].result = "Duplicate" => ~log[i].emit
        /\ log[i].update = (log[i].result = "Updated")
        /\ log[i].update => log[i].emit

\* Each of the three results has been returned and flagged.
C10_Witness ==
    /\ \E i \in 1..Len(log) : log[i].result = "Duplicate" /\ ~log[i].emit
    /\ \E i \in 1..Len(log) : log[i].result = "Updated" /\ log[i].update
    /\ \E i \in 1..Len(log) : log[i].result = "New" /\ log[i].emit

----
----
\* Helpers for the detector's properties.

\* The loop entry computed a ratio (the index was not skipped).
Evaluated(e) == ~e.skipped

\* The loop entry pushed a Detection.
Emits(e) == e.pushed # <<>>

\* The entries that pushed a Detection, in loop order.
Emitting == SelectSeq(evals, Emits)

\* Fractions a and b with positive denominators: a < b.
RatLt(a, b) == a.num * b.den < b.num * a.den

\* detect has computed the PGA of each sample, and all are the same.
ConstantPga == pga_vec # <<>> /\ \A j \in 1..Len(pga_vec) : pga_vec[j] = pga_vec[1]

\* The least of a non-empty set of naturals.
Least(S) == CHOOSE m \in S : \A k \in S : m <= k

\* C12: detect is edge-triggered.  A Detection is pushed exactly at the
\* evaluated indices where the state is idle and ratio > trigger threshold;
\* between any two Detections of one call there is an evaluated index whose
\* ratio was below the detrigger threshold, so no Detection follows another
\* without a detrigger in between.
C12_EdgeTriggered ==
    /\ \A j \in 1..Len(evals) :
           /\ evals[j].before = (IF j = 1 THEN FALSE ELSE evals[j - 1].after)
           /\ Emits(evals[j]) <=>
                  /\ Evaluated(evals[j])
                  /\ ~evals[j].before
                  /\ FGt(evals[j].ratio[1], detector.trigger_threshold)
           /\ Emits(evals[j]) => Len(evals[j].pushed) = 1
    /\ is_triggered = (IF evals = <<>> THEN FALSE ELSE Last(evals).after)
    /\ Len(detections) = Len(Emitting)
    /\ \A j, k \in 1..Len(evals) :
           (j < k /\ Emits(evals[j]) /\ Emits(evals[k])) =>
               \E m \in (j + 1)..(k - 1) :
                   /\ Evaluated(evals[m])
                   /\ FLt(evals[m].ratio[1], detector.detrigger_threshold)
                   /\ ~evals[m].after

\* One call pushed two Detections, with a detrigger between them.
C12_Witness ==
    /\ Len(detections) >= 2
    /\ \E j, m, k \in 1..Len(evals) :
           /\ j < m /\ m < k
           /\ Emits(evals[j]) /\ Emits(evals[k])
           /\ evals[m].before /\ ~evals[m].after

\* C13: hysteresis.  The state goes from triggered to idle only at an
\* evaluated index whose ratio is strictly below the detrigger threshold, and
\* that index pushes nothing; with detrigger <= trigger, a ratio within
\* [detrigger, trigger] leaves the state as it was and pushes nothing.
C13_Hysteresis ==
    \A j \in 1..Len(evals) :
        LET e == evals[j]
        IN  /\ (e.before /\ ~e.after) =>
                   /\ Evaluated(e)
                   /\ FLt(e.ratio[1], detector.detrigger_threshold)
                   /\ ~Emits(e)
            /\ ( /\ FLe(detector.detrigger_threshold, detector.trigger_threshold)
                 /\ Evaluated(e)
                 /\ FGe(e.ratio[1], detector.detrigger_threshold)
                 /\ FLe(e.ratio[1], detector.trigger_threshold) ) =>
                   (e.after = e.before /\ ~Emits(e))

\* A triggered detector saw a ratio inside the band and stayed triggered, then
\* a ratio below the detrigger threshold and went idle.
C13_Witness ==
    \E j, k \in 1..Len(evals) :
        /\ j < k
        /\ evals[j].before /\ evals[j].after /\ Evaluated(evals[j])
        /\ FGe(evals[j].ratio[1], detector.detrigger_threshold)
        /\ FLt(evals[j].ratio[1], detector.trigger_threshold)
        /\ evals[k].before /\ ~evals[k].after

\* C14: n is the minimum of the three axis lengths; detect returns an empty
\* sequence whenever n < lta_samples (n = 0 and unequal axes included); the
\* evaluated indices are lta_samples..n-1, max(0, n - lta_samples) of them.
C14_ShortRecord ==
    LET n == Least({Len(record_arg.x), Len(record_arg.y), Len(record_arg.z)})
        lta == detector.lta_samples
    IN  /\ dpc \in {"loop", "done"} => n_samples = n
        /\ (dpc \in {"loop", "done"} /\ n < lta) =>
               (dpc = "done" /\ detections = <<>> /\ evals = <<>>)
        /\ \A j \in 1..Len(evals) : evals[j].i = lta + j - 1
        /\ Len(evals) <= (IF n > lta THEN n - lta ELSE 0)
        /\ dpc = "done" => Len(evals) = (IF n > lta THEN n - lta ELSE 0)

\* detect returned empty-handed because the shortest axis is shorter than the
\* long window, although the x axis alone is long enough.
C14_Witness ==
    /\ dpc = "done"
    /\ n_samples < detector.lta_samples
    /\ Len(record_arg.x) >= detector.lta_samples
    /\ detections = <<>>

\* C15: at an index where LTA < 0.001 the loop skips: no ratio is computed,
\* no Detection is pushed, and the triggered state is left as it was.
C15_SilentSkip ==
    \A j \in 1..Len(evals) :
        LET e == evals[j]
        IN  FLt(e.lta, FDec(1, 1000)) =>
                /\ e.skipped
                /\ e.ratio = <<>>
                /\ ~Emits(e)
                /\ e.after = e.before
                /\ j = Len(evals) => is_triggered = e.before

\* A triggered detector met a silent baseline and stayed triggered.
C15_Witness ==
    \E j \in 1..Len(evals) :
        /\ FLt(evals[j].lta, FDec(1, 1000))
        /\ evals[j].before
        /\ evals[j].after
        /\ is_triggered

\* The short window of index i: the indices i - sta_samples .. i - 1 that
\* exist (1-based positions in pga_vec).
ShortWindow(i) ==
    {m \in 1..Len(pga_vec) : i - detector.sta_samples < m /\ m <= i}

\* C16 (as amended): the pga of a Detection pushed at index i is the maximum
\* of the per-sample PGA values over the short window before i (indices
\* max(0, i - sta_samples) .. i - 1), not the PGA of sample i.
C16_PeakOfWindow ==
    \A j \in 1..Len(evals) :
        Emits(evals[j]) =>
            LET d == evals[j].pushed[1]
                W == ShortWindow(evals[j].i)
            IN  /\ \E m \in W : d.pga = pga_vec[m]
                /\ \A m \in W : FGe(d.pga, pga_vec[m])

\* A Detection whose pga is above the PGA of the sample at its own index.
C16_Witness ==
    \E j \in 1..Len(evals) :
        /\ Emits(evals[j])
        /\ FGt(evals[j].pushed[1].pga, pga_vec[evals[j].i + 1])

\* C16 (as stated): moreover the pga of a Detection is at least the STA value
\* at its trigger index.
C16_PeakAtLeastSta ==
    \A j \in 1..Len(evals) :
        Emits(evals[j]) =>
            /\ \E m \in ShortWindow(evals[j].i) :
                   evals[j].pushed[1].pga = pga_vec[m]
            /\ FGe(evals[j].pushed[1].pga, evals[j].sta)

\* C17: every Detection is consistent: alert_level is from_pga of its pga,
\* estimated_magnitude is the estimator applied to its pga, sta_lta_ratio is
\* the ratio at its trigger index and exceeds the trigger threshold, and
\* device_id is the record's.
C17_Consistent ==
    /\ Len(detections) = Len(Emitting)
    /\ \A k \in 1..Len(detections) :
           LET d == detections[k]
           IN  /\ d = Emitting[k].pushed[1]
               /\ d.alert_level = from_pga(d.pga)
               /\ d.alert_level \in AlertLevel
               /\ d.estimated_magnitude = estimate_magnitude_from_pga(d.pga)
               /\ d.sta_lta_ratio = Emitting[k].ratio[1]
               /\ d.sta_lta_ratio = FDiv(Emitting[k].sta, Emitting[k].lta)
               /\ FGt(d.sta_lta_ratio, detector.trigger_threshold)
               /\ d.device_id = record_arg.device_id

\* A returned Detection whose level is not the one its ratio would give.
C17_Witness ==
    /\ dpc = "done"
    /\ \E k \in 1..Len(detections) :
           /\ detections[k].alert_level # from_pga(detections[k].sta_lta_ratio)
           /\ detections[k].estimated_magnitude # <<>>

NearOne(ratio) == FGt(ratio, FDec(99, 100)) /\ FLt(ratio, FDec(101, 100))

\* C19 (as amended): on a record whose per-sample PGA is constant, with
\* 1 <= sta_samples <= lta_samples, STA and LTA agree up to f32 rounding (the
\* ratio is within one percent of 1 at every evaluated index), so the default
\* detector (sta 10, lta 100, trigger 3.0) pushes no Detection on the record
\* of 200 samples at 0.1, and no detector with trigger threshold 3.0 does on
\* any constant record.
C19_ConstantQuiet ==
    ( /\ ConstantPga
      /\ 1 <= detector.sta_samples
      /\ detector.sta_samples <= detector.lta_samples ) =>
        /\ \A j \in 1..Len(evals) :
               Evaluated(evals[j]) => NearOne(evals[j].ratio[1])
        /\ FGe(detector.trigger_threshold, FDec(101, 100)) => detections = <<>>
        /\ (record_arg = QuietRecord /\ detector = StaLtaDetector_default) =>
               detections = <<>>

\* The default detector has gone through the 200-sample quiet record and
\* evaluated a ratio at each of its 100 loop indices.
C19_Witness ==
    /\ dpc = "done"
    /\ record_arg = QuietRecord
    /\ detector = StaLtaDetector_default
    /\ Len(evals) = 100
    /\ \A j \in 1..Len(evals) : Evaluated(evals[j])
    /\ detections = <<>>

\* C19 (as stated): on a record whose per-sample PGA is constant, with
\* sta_samples <= lta_samples and trigger threshold >= 1, STA equals LTA at
\* every evaluated index and no Detection is pushed.
C19_ConstantExact ==
    ( /\ ConstantPga
      /\ 1 <= detector.sta_samples
      /\ detector.sta_samples <= detector.lta_samples
      /\ FGe(detector.trigger_threshold, FFromNat(1)) ) =>
        /\ \A j \in 1..Len(evals) :
               Evaluated(evals[j]) => evals[j].sta = evals[j].lta
        /\ detections = <<>>

\* C20: on the record of 150 quiet samples (0.1) followed by 50 samples at
\* 10.0, the default detector returns at least one Detection and the first
\* one's pga exceeds 10.0.
C20_SpikeDetected ==
    (dpc = "done" /\ record_arg = SpikeRecord /\ detector = StaLtaDetector_default)
        => /\ Len(detections) >= 1
           /\ FGt(detections[1].pga, FFromNat(10))

\* The default detector returned from the spike record with a Detection, the
\* first one pushed right after the spike began.
C20_Witness ==
    /\ dpc = "done"
    /\ record_arg = SpikeRecord
    /\ detector = StaLtaDetector_default
    /\ Len(detections) >= 1
    /\ Emitting[1].i > 150
    /\ FGt(detections[1].pga, FFromNat(10))

----
\* Helpers for the properties of the pure functions.

\* The call of fn has returned.
Returned(fn) == fn_call.fn = fn /\ fn_ret # <<>>

\* The levels from the mildest to the most severe.
LevelOrder == <<"None", "Weak", "Light", "Moderate", "Strong", "Severe">>

\* The position of a level in that order.
Rank(level) == CHOOSE r \in 1..Len(LevelOrder) : LevelOrder[r] = level

\* The level whose band [lo, hi) holds pga, read off the claimed bands.
BandOf(p) ==
    CASE FLt(p, FFromNat(1)) -> "None"
      [] FGe(p, FFromNat(1)) /\ FLt(p, FFromNat(3)) -> "Weak"
      [] FGe(p, FFromNat(3)) /\ FLt(p, FFromNat(10)) -> "Light"
      [] FGe(p, FFromNat(10)) /\ FLt(p, FFromNat(50)) -> "Moderate"
      [] FGe(p, FFromNat(50)) /\ FLt(p, FFromNat(150)) -> "Strong"
      [] FGe(p, FFromNat(150)) -> "Severe"
      [] p.k = "nan" -> "None"

C22_Estimate ==
    Returned("estimate_magnitude_from_pga") =>
        LET a == fn_call.args[1]
            b == fn_call.args[2]
            ma == fn_ret[1].a
            mb == fn_ret[1].b
        IN  /\ (ma = <<>>) <=> FLt(a, FDec(1, 10))
            /\ FGe(a, FDec(1, 10)) =>
                   (Len(ma) = 1 /\ 10 <= ma[1] /\ ma[1] <= 90)
            /\ (FGe(a, FDec(1, 10)) /\ FLe(a, b)) => ma[1] <= mb[1]

\* 0.1 was estimated at the low end, and a PGA past the upper clamp at 9.0.
C22_Witness ==
    /\ Returned("estimate_magnitude_from_pga")
    /\ fn_call.args = <<FDec(1, 10), FFromNat(10000000)>>
    /\ fn_ret[1] = [a |-> <<15>>, b |-> <<90>>]

\* Filter g sets every criterion that filter f sets, to the same value.
Extends(g, f) ==
    /\ f.min_magnitude # <<>> => g.min_magnitude = f.min_magnitude
    /\ f.max_depth # <<>> => g.max_depth = f.max_depth
    /\ f.bbox # <<>> => g.bbox = f.bbox
    /\ f.radius # <<>> => g.radius = f.radius
    /\ f.significant_only => g.significant_only

\* C23: matches(event) is true iff all five checks pass, each check passing
\* when its criterion is unset; the default filter matches every event, and
\* setting one more criterion can only shrink the set of matching events.
C23_Conjunction ==
    Returned("matches") =>
        LET self == fn_call.args[1]
            event == fn_call.args[2]
            r == fn_ret[1]
        IN  /\ r.matches <=>
                   (r.magnitude /\ r.depth /\ r.bbox /\ r.radius /\ r.significant)
            /\ self.min_magnitude = <<>> => r.magnitude
            /\ self.max_depth = <<>> => r.depth
            /\ self.bbox = <<>> => r.bbox
            /\ self.radius = <<>> => r.radius
            /\ ~self.significant_only => r.significant
            /\ self.max_depth # <<>> =>
                   (r.depth <=> event.geometry.coordinates[3] <= self.max_depth[1])
            /\ self = EventFilter_default => r.matches
            /\ ~r.matches =>
                   \A g \in MatchFilters : Extends(g, self) => ~matches(g, event)

\* A filter with all five criteria set matched an event, and so did the
\* default filter.
C23_Witness ==
    /\ Returned("matches")
    /\ fn_call.args[1].min_magnitude # <<>>
    /\ fn_call.args[1].max_depth # <<>>
    /\ fn_call.args[1].bbox # <<>>
    /\ fn_call.args[1].radius # <<>>
    /\ fn_call.args[1].significant_only
    /\ fn_ret[1].matches
    /\ matches(EventFilter_default, fn_call.args[2])

\* C24: with a minimum magnitude set, an event without magnitude fails the
\* filter whatever the other criteria, and an event of magnitude m passes the
\* magnitude check iff m >= minimum; with no minimum set, an event without
\* magnitude passes the magnitude check.
C24_Magnitude ==
    Returned("matches") =>
        LET self == fn_call.args[1]
            mag == fn_call.args[2].properties.mag
            r == fn_ret[1]
        IN  /\ (self.min_magnitude # <<>> /\ mag = <<>>) =>
                   (~r.magnitude /\ ~r.matches)
            /\ (self.min_magnitude # <<>> /\ mag # <<>>) =>
                   (r.magnitude <=> mag[1] >= self.min_magnitude[1])
            /\ self.min_magnitude = <<>> => r.magnitude

\* An event without magnitude failed a filter whose only criterion is the
\* minimum magnitude.
C24_Witness ==
    /\ Returned("matches")
    /\ fn_call.args[1] = [EventFilter_default EXCEPT !.min_magnitude = <<50>>]
    /\ fn_call.args[2].properties.mag = <<>>
    /\ ~fn_ret[1].magnitude
    /\ ~fn_ret[1].matches

\* C25: with significant-only set, an event passes the significance check
\* only if it carries a non-empty alert tier (an absent alert and a present
\* but empty one are both rejected); with significant-only unset the check
\* always passes.
C25_Significant ==
    Returned("matches") =>
        LET self == fn_call.args[1]
            alert == fn_call.args[2].properties.alert
            r == fn_ret[1]
        IN  /\ self.significant_only =>
                   (r.significant => (alert # <<>> /\ alert # <<"">>))
            /\ ~self.significant_only => r.significant

----
\* Helpers for the parser properties.

\* lo <= x <= hi as numbers; no NaN is within a range.
DWithin(x, lo, hi) == DLe(D(lo, 1), x) /\ DLe(x, D(hi, 1))

\* The fields of a string, and what each parses to.
FieldsOf(s) == split(s, <<>>)

Parsed(s) == parse_all(FieldsOf(s))

AllNumeric(s) == \A j \in 1..Len(Parsed(s)) : Parsed(s)[j].ok

\* C26: parsing a bounding box returns an error whenever the field count is
\* not 4, a field is not numeric, a latitude is outside [-90, 90], a longitude
\* is outside [-180, 180] or min_lat > max_lat; and every box that parses
\* satisfies all of these and carries the four values in the order min_lat,
\* min_lon, max_lat, max_lon.
C26_BBoxParse ==
    Returned("BBox_from_str") =>
        LET s == fn_call.args[1]
            r == fn_ret[1]
            v == Parsed(s)
        IN  /\ Len(FieldsOf(s)) # 4 => ~r.ok
            /\ Len(FieldsOf(s)) = 4 /\ ~AllNumeric(s) => ~r.ok
            /\ Len(FieldsOf(s)) = 4 /\ AllNumeric(s) =>
                 /\ ~DWithin(v[1].val, -90, 90) => ~r.ok
                 /\ ~DWithin(v[3].val, -90, 90) => ~r.ok
                 /\ ~DWithin(v[2].val, -180, 180) => ~r.ok
                 /\ ~DWithin(v[4].val, -180, 180) => ~r.ok
                 /\ DGt(v[1].val, v[3].val) => ~r.ok
            /\ r.ok =>
                 /\ Len(FieldsOf(s)) = 4 /\ AllNumeric(s)
                 /\ r.val = [min_lat |-> v[1].val, min_lon |-> v[2].val,
                             max_lat |-> v[3].val, max_lon |-> v[4].val]
                 /\ DWithin(r.val.min_lat, -90, 90)
                 /\ DWithin(r.val.max_lat, -90, 90)
                 /\ DWithin(r.val.min_lon, -180, 180)
                 /\ DWithin(r.val.max_lon, -180, 180)
                 /\ DLe(r.val.min_lat, r.val.max_lat)

\* C27: parsing a radius filter returns an error whenever the field count is
\* not 3, a field is not numeric, the latitude is outside [-90, 90], the
\* longitude is outside [-180, 180] or the radius is zero or negative; and
\* every filter that parses has an in-range centre and a strictly positive
\* radius.
C27_RadiusParse ==
    Returned("RadiusFilter_from_str") =>
        LET s == fn_call.args[1]
            r == fn_ret[1]
            v == Parsed(s)
        IN  /\ Len(FieldsOf(s)) # 3 => ~r.ok
            /\ Len(FieldsOf(s)) = 3 /\ ~AllNumeric(s) => ~r.ok
            /\ Len(FieldsOf(s)) = 3 /\ AllNumeric(s) =>
                 /\ ~DWithin(v[1].val, -90, 90) => ~r.ok
                 /\ ~DWithin(v[2].val, -180, 180) => ~r.ok
                 /\ DLe(v[3].val, D(0, 1)) => ~r.ok
            /\ r.ok =>
                 /\ Len(FieldsOf(s)) = 3 /\ AllNumeric(s)
                 /\ DWithin(r.val.center_lat, -90, 90)
                 /\ DWithin(r.val.center_lon, -180, 180)
                 /\ DGt(r.val.radius_km, D(0, 1))

\* The point is a corner of the box.
IsCorner(b, lat, lon) ==
    lat \in {b.min_lat, b.max_lat} /\ lon \in {b.min_lon, b.max_lon}

\* The point is on an edge of the box.
IsEdge(b, lat, lon) ==
    \/ lat \in {b.min_lat, b.max_lat} /\ lon \in b.min_lon..b.max_lon
    \/ lon \in {b.min_lon, b.max_lon} /\ lat \in b.min_lat..b.max_lat

\* The range test, the rejection outside either range and the two points of
\* the test.
ContainsIsRangeTest(b, lat, lon, inside) ==
    /\ inside <=> (lat \in b.min_lat..b.max_lat /\ lon \in b.min_lon..b.max_lon)
    /\ (lat < b.min_lat \/ lat > b.max_lat) => ~inside
    /\ (lon < b.min_lon \/ lon > b.max_lon) => ~inside
    /\ b = TestBBox /\ lat = 370 /\ lon = -1200 => inside
    /\ b = TestBBox /\ lat = 500 /\ lon = -1200 => ~inside

\* C28 as stated: BBox::contains is true exactly when min_lat <= lat <=
\* max_lat and min_lon <= lon <= max_lon, edges included and each axis tested
\* on its own; all four corners and the edge points of the box are contained,
\* a point outside on either axis is not; the box 32.5,-124.5,42.0,-114.0
\* contains (37.0, -120.0) and excludes (50.0, -120.0).
C28_ContainsAnyBox ==
    Returned("BBox_contains") =>
        LET b == fn_call.args[1]
            lat == fn_call.args[2]
            lon == fn_call.args[3]
        IN  /\ ContainsIsRangeTest(b, lat, lon, fn_ret[1])
            /\ IsCorner(b, lat, lon) \/ IsEdge(b, lat, lon) => fn_ret[1]

\* C28, amended: the range test as stated; the corners and the edge points
\* are contained when the box has min_lat <= max_lat and min_lon <= max_lon
\* (the parser does not compare the longitudes, and a box with min_lon >
\* max_lon contains no point, its corners included).
C28_Contains ==
    Returned("BBox_contains") =>
        LET b == fn_call.args[1]
            lat == fn_call.args[2]
            lon == fn_call.args[3]
        IN  /\ ContainsIsRangeTest(b, lat, lon, fn_ret[1])
            /\ b.min_lat <= b.max_lat /\ b.min_lon <= b.max_lon =>
                 (IsCorner(b, lat, lon) \/ IsEdge(b, lat, lon) => fn_ret[1])

\* A corner of the test's box has been found inside it.
C28_Witness ==
    /\ Returned("BBox_contains")
    /\ fn_call.args = <<TestBBox, TestBBox.max_lat, TestBBox.min_lon>>
    /\ fn_ret[1]

\* C29: detect never panics and never indexes out of bounds, whatever the
\* record and the windows: the samples read are within each axis, and at
\* every evaluated index i the STA, LTA and peak slices have bounds
\* 0 <= lower <= i <= n; also when n = 0, the axes differ in length,
\* sta_samples > lta_samples or a window has length 0.
C29_NoPanic ==
    /\ dpc # "panicked"
    /\ dpc \in {"loop", "done"} =>
         /\ n_samples <= Len(record_arg.x)
         /\ n_samples <= Len(record_arg.y)
         /\ n_samples <= Len(record_arg.z)
         /\ pga_vec # <<>> => Len(pga_vec) = n_samples
         /\ \A k \in 1..Len(evals) :
              LET i == evals[k].i
                  sta_lower == i - usize_min(i, detector.sta_samples)
                  lta_lower == i - usize_min(i, detector.lta_samples)
              IN  /\ 0 <= sta_lower /\ sta_lower <= i
                  /\ 0 <= lta_lower /\ lta_lower <= i
                  /\ i < n_samples
                  /\ Len(window(pga_vec, i, detector.sta_samples))
                        = usize_min(i, detector.sta_samples)
                  /\ Len(window(pga_vec, i, detector.lta_samples))
                        = usize_min(i, detector.lta_samples)

\* A call has returned after evaluating every index of a record with axes of
\* different lengths, with a short window longer than the long one and
\* clamped at the start of the record.
C29_Witness ==
    /\ dpc = "done"
    /\ detector.sta_samples > detector.lta_samples
    /\ Len(record_arg.x) # Len(record_arg.z)
    /\ Len(evals) = n_samples - detector.lta_samples
    /\ \E k \in 1..Len(evals) : evals[k].i < detector.sta_samples

\* A call has returned after evaluating index 0 with a long window of length
\* 0.
C29_WitnessZero ==
    /\ dpc = "done"
    /\ detector.lta_samples = 0
    /\ evals # <<>>
    /\ evals[1].i = 0

\* C30: check_and_mark creates an entry only on the first sighting of an
\* untracked id, changes an existing entry only by raising its stored time on
\* Updated, and removes an entry only when a New id is inserted into a ring
\* at capacity, and then exactly one, the oldest; a Duplicate leaves the
\* entries, their times and their order unchanged, and an Updated leaves len,
\* every other entry and the order unchanged.
C30_Step ==
    IsCall =>
        LET e == Last(log')
            created == Tracked(ring') \ Tracked(ring)
            removed == Tracked(ring) \ Tracked(ring')
            kept == Tracked(ring) \cap Tracked(ring')
        IN  /\ created \subseteq {e.id}
            /\ created # {} <=> e.result = "New"
            /\ e.result = "New" => e.id \notin Tracked(ring)
            /\ Len(ring'.seen) = Cardinality(Tracked(ring'))
            /\ \A id \in kept :
                   Stored(ring', id) # Stored(ring, id) =>
                       /\ e.result = "Updated"
                       /\ id = e.id
                       /\ Stored(ring', id) = e.updated
                       /\ Stored(ring', id) > Stored(ring, id)
            /\ removed # {} <=> (e.result = "New" /\ len(ring) >= ring.capacity)
            /\ removed # {} =>
                   /\ removed = {Head(ring.seen).id}
                   /\ len(ring') = len(ring)
                   /\ IdsOf(ring'.seen) = Append(Tail(IdsOf(ring.seen)), e.id)
            /\ (e.result = "New" /\ removed = {}) =>
                   ring'.seen = Append(ring.seen, SeenEntry(e.id, e.updated))
            /\ e.result = "Duplicate" => ring'.seen = ring.seen
            /\ e.result = "Updated" =>
                   /\ len(ring') = len(ring)
                   /\ IdsOf(ring'.seen) = IdsOf(ring.seen)
                   /\ \A i \in 1..Len(ring.seen) :
                          ring.seen[i].id # e.id => ring'.seen[i] = ring.seen[i]

C30_Frame == [][C30_Step]_vars

\* A ring of capacity at least 2 has answered Updated, then Duplicate on an
\* older time for the same id, and has evicted an entry for a new id.
C30_Witness ==
    /\ pc = "ready"
    /\ ring.capacity >= 2
    /\ CountResult("New") > ring.capacity
    /\ \E i \in 1..(Len(log) - 1) :
           /\ log[i].result = "Updated"
           /\ log[i + 1].result = "Duplicate"
           /\ log[i + 1].id = log[i].id
           /\ log[i + 1].updated < log[i].updated
           /\ log[i].id \in Tracked(ring)

----
\* The ids the feeds carry.
FeedIds == {e.id : e \in Events}

\* The reports the live stream wrote for an id, in the order written.
WrittenFor(id) == SelectSeq(output, LAMBDA w : w.event.id = id)

StartsIdleAndRepeats ==
    /\ (dpc = "loop" /\ evals = <<>>) => ~is_triggered
    /\ evals # <<>> => ~evals[1].before
    /\ \A k \in 1..Len(returned) :
           /\ returned[k].detector = detector
           /\ returned[k].record = record_arg
    /\ Len(returned) = 2 => returned[2].detections = returned[1].detections

\* C32: detect keeps no trigger state between calls and modifies neither the
\* detector nor the record: every call starts in the idle state, so two
\* calls on the same record with the same detector return equal Detection
\* sequences, also when the previous call ended in the triggered state.
C32_NoStateKept ==
    /\ []StartsIdleAndRepeats
    /\ [][detector' = detector /\ record_arg' = record_arg]_vars

\* The first call pushed a Detection and ended triggered; the second call has
\* returned the same Detection.
C32_Witness ==
    /\ dpc = "done"
    /\ Len(returned) = 2
    /\ returned[1].triggered
    /\ returned[1].detections # <<>>
    /\ returned[2].detections = returned[1].detections

\* C33: a bounding box whose min_lon is greater than max_lon (a box meant to
\* cross the antimeridian, e.g. min_lon 170 and max_lon -170) is accepted by
\* the parser without error, and contains() then returns false for every
\* point: the box is always empty rather than wrapping.
C33_InvertedIsEmpty ==
    Returned("BBox_parse_contains") =>
        LET v == Parsed(fn_call.args[1])
            r == fn_ret[1]
        IN  DGt(v[2].val, v[4].val) =>
                /\ r.parsed.ok
                /\ r.parsed.val.min_lon = v[2].val
                /\ r.parsed.val.max_lon = v[4].val
                /\ r.inside = <<FALSE>>

\* The box 0,170,10,-170 parsed, and the point (5.0, 175.0), between its
\* latitudes and east of its min_lon, was found outside it.
C33_Witness ==
    /\ Returned("BBox_parse_contains")
    /\ fn_call.args = <<<<"0", ",", "1", "7", "0", ",", "1", "0", ",",
                          "-", "1", "7", "0">>, 50, 1750>>
    /\ fn_ret[1].parsed.ok
    /\ fn_ret[1].inside = <<FALSE>>

\* C34: in every reachable state of the ring no two entries have the same
\* id: an id is inserted only when the scan finds no entry for it, so each
\* tracked id occupies exactly one position.
C34_UniqueIds ==
    /\ \A i, j \in 1..Len(ring.seen) : i # j => ring.seen[i].id # ring.seen[j].id
    /\ \A id \in Tracked(ring) :
           Cardinality({i \in 1..Len(ring.seen) : ring.seen[i].id = id}) = 1

\* A ring tracks two ids, the older of which has been submitted three times.
C34_Witness ==
    /\ pc = "ready"
    /\ len(ring) = 2
    /\ Cardinality({i \in 1..Len(log) : log[i].id = ring.seen[1].id}) >= 3

\* The greatest of a non-empty set of integers.
Greatest(S) == CHOOSE m \in S : \A k \in S : k <= m

\* The logged call that most recently inserted a tracked id.
InsertedAt(id) ==
    Greatest({i \in 1..Len(log) : log[i].id = id /\ log[i].result = "New"})

\* The update times passed for a tracked id since its entry was inserted.
TimesSince(id) ==
    {log[i].updated : i \in {k \in InsertedAt(id)..Len(log) : log[k].id = id}}

\* Every tracked id stores the greatest time passed for it since insertion.
StoresGreatest ==
    pc = "ready" =>
        \A id \in Tracked(ring) : Stored(ring, id) = Greatest(TimesSince(id))

\* The stored time of an id that stays tracked over a call does not decrease.
NeverDecreases ==
    IsCall =>
        \A id \in Tracked(ring) \cap Tracked(ring') :
            Stored(ring', id) >= Stored(ring, id)

\* C35: while an id remains tracked, its stored time never decreases and
\* always equals the maximum update time passed to check_and_mark for that id
\* since its entry was (most recently) inserted, also when the feed delivers
\* reports with out-of-order update times.
C35_StoredIsMax == []StoresGreatest /\ [][NeverDecreases]_vars

\* An id was evicted and inserted again with the older time, then reported
\* with the newer time and once more with the older one: it stores the newer.
C35_Witness ==
    /\ pc = "ready"
    /\ \E id \in Tracked(ring) :
           /\ Cardinality({i \in 1..Len(log) :
                             log[i].id = id /\ log[i].result = "New"}) = 2
           /\ Len(log) = InsertedAt(id) + 2
           /\ log[InsertedAt(id) + 1].id = id
           /\ log[InsertedAt(id) + 1].updated > log[InsertedAt(id)].updated
           /\ log[InsertedAt(id) + 2].id = id
           /\ log[InsertedAt(id) + 2].updated < log[InsertedAt(id) + 1].updated
           /\ Stored(ring, id) = log[InsertedAt(id) + 1].updated

\* C40: in simulate mode the synthetic record (30 quiet samples, 10 P-wave
\* samples, 10 decay samples) given to the default detector is long enough
\* to be evaluated (its sample count is at least the default long window of
\* 100 samples), so detect evaluates at least one index and reports at least
\* one detection for the simulated P-wave arrival.
C40_SimulationDetects ==
    (dpc = "done" /\ record_arg = SimulatedRecord
        /\ detector = StaLtaDetector_default) =>
        /\ n_samples >= detector.lta_samples
        /\ evals # <<>>
        /\ detections # <<>>

\* The ring and the length of the output once poll k is over: what the next
\* fetch found, or what they are now.
AfterPoll(k) ==
    IF k < Len(fetches)
    THEN [dedup |-> fetches[k + 1].dedup, written |-> fetches[k + 1].written]
    ELSE [dedup |-> dedup, written |-> Len(output)]

\* C37: when fetch_feed fails in an iteration of the live loop, nothing is
\* emitted in that iteration, the dedup ring and its counters are unchanged,
\* and the loop goes on to the next poll instead of terminating; a later
\* successful poll is processed against the unchanged ring.
C37_FetchFailure ==
    /\ Len(fetches) = poll_count
    /\ \A k \in 1..Len(fetches) :
           ~fetches[k].ok =>
               /\ \A j \in 1..Len(handled) : handled[j].poll # k
               /\ AfterPoll(k).dedup = fetches[k].dedup
               /\ AfterPoll(k).written = fetches[k].written
               /\ k = Len(fetches) => lpc = "poll"
               /\ (k < Len(fetches) /\ fetches[k + 1].ok) =>
                      \A j \in 1..Len(handled) :
                          (handled[j].poll = k + 1
                              /\ (j = 1 \/ handled[j - 1].poll # k + 1)) =>
                              handled[j].before = fetches[k].dedup

\* After a poll that emitted an event the next fetch failed, and the poll
\* after it dropped the same event as a duplicate.
C37_Witness ==
    /\ Len(fetches) = 3
    /\ fetches[1].ok /\ ~fetches[2].ok /\ fetches[3].ok
    /\ \E i, j \in 1..Len(handled) :
           /\ handled[i].poll = 1 /\ handled[i].result = <<"New">>
           /\ handled[j].poll = 3 /\ handled[j].result = <<"Duplicate">>
           /\ handled[j].event = handled[i].event

\* How many times event e occurs in sequence s.
Occurrences(s, e) == Cardinality({k \in 1..Len(s) : s[k] = e})

\* C39: the tail command outputs exactly the first `limit` elements of the
\* filter-passing events sorted by event time descending: at most `limit`
\* events are output, every output event passes the filter, the output is in
\* non-increasing event-time order, and no omitted filter-passing event has a
\* later event time than an output one.
C39_TailOutput ==
    Returned("cmd_tail") =>
        LET self == fn_call.args[1]
            feed == fn_call.args[2]
            limit == fn_call.args[3]
            out == fn_ret[1]
            passing == {k \in 1..Len(feed) : matches(self, feed[k])}
        IN  /\ Len(out) <= limit
            /\ Len(out) = usize_min(limit, Cardinality(passing))
            /\ \A k \in 1..Len(out) : matches(self, out[k])
            /\ \A e \in TailEvents : Occurrences(out, e) <= Occurrences(feed, e)
            /\ \A k \in 1..(Len(out) - 1) :
                   out[k].properties.time >= out[k + 1].properties.time
            /\ \A e \in TailEvents :
                   (matches(self, e) /\ Occurrences(out, e) < Occurrences(feed, e)) =>
                       \A k \in 1..Len(out) :
                           e.properties.time <= out[k].properties.time

\* Of three passing events with the latest one last in the feed, the two
\* latest were output, latest first, and the earliest was left out.
C39_Witness ==
    /\ Returned("cmd_tail")
    /\ fn_call.args[3] = 2
    /\ Len(fn_call.args[2]) = 3
    /\ fn_call.args[2][1].properties.time = 1000
    /\ fn_call.args[2][3].properties.time = 4000
    /\ Len(fn_ret[1]) = 2
    /\ fn_ret[1][1] = fn_call.args[2][3]
    /\ fn_ret[1][2] = fn_call.args[2][2]

\* C36: after the stop handler has set feed_active to false, the polling
\* task fetches no feed and broadcasts no event until the start handler sets
\* it to true again: every fetch and every send is made with the flag true.
C36_StoppedIsQuiet ==
    /\ \A k \in 1..Len(srv_fetches) : srv_fetches[k].active
    /\ \A k \in 1..Len(broadcasts) : broadcasts[k].active

\* The ids broadcast so far.
BroadcastIds == {broadcasts[k].event.id : k \in 1..Len(broadcasts)}

\* No id was sent twice, every event sent passes the configured filter, and
\* the ids recorded as seen are the ids sent.
OncePerId ==
    /\ \A j, k \in 1..Len(broadcasts) :
           broadcasts[j].event.id = broadcasts[k].event.id => j = k
    /\ \A k \in 1..Len(broadcasts) :
           matches(config.filter, broadcasts[k].event)
    /\ seen_ids = BroadcastIds

\* An event of the feed whose id was sent before, or which fails the filter,
\* is not sent and leaves seen_ids as it was; any other is sent and recorded.
SentOrSkipped ==
    (spc = "events" /\ srv_at' = srv_at + 1) =>
        LET event == srv_features[srv_at]
        IN  IF event.id \in BroadcastIds \/ ~matches(config.filter, event)
            THEN seen_ids' = seen_ids /\ broadcasts' = broadcasts
            ELSE /\ seen_ids' = seen_ids \cup {event.id}
                 /\ Len(broadcasts') = Len(broadcasts) + 1
                 /\ broadcasts'[Len(broadcasts')].event = event

\* C38: over the lifetime of the server the polling task broadcasts each
\* event id at most once, and only events that pass the configured filter:
\* an id that has been broadcast is never broadcast again, and an event that
\* fails the filter is neither broadcast nor recorded as seen.
C38_BroadcastOnce == []OncePerId /\ [][SentOrSkipped]_vars

\* The second fetch brought an event that fails the filter, which was
\* skipped and not recorded, and then an event whose id the first fetch had
\* already sent, which was skipped too.
C38_Witness ==
    /\ Len(srv_fetches) = 2
    /\ spc = "events"
    /\ Len(srv_features) = 2
    /\ srv_at = 3
    /\ ~matches(config.filter, srv_features[1])
    /\ srv_features[1].id \notin seen_ids
    /\ matches(config.filter, srv_features[2])
    /\ Len(broadcasts) = 1
    /\ broadcasts[1].fetch = 1
    /\ broadcasts[1].event.id = srv_features[2].id

====
